---- MODULE Spec2Model ----
(***************************************************************************)
(* A model of astrbot_plugin_apis: the endpoint registry and its matching  *)
(* engine (core/api_manager.py), the fetch pipeline and the availability   *)
(* prober (core/request.py) and the fallback orchestrator (main.py).       *)
(*                                                                         *)
(* Python strings are modelled as sequences of tokens (a token is a run of *)
(* characters that the code never splits), so that containment, strip and  *)
(* startswith are computed and not assumed.  Python values are tagged      *)
(* records [t |-> "none" | "str" | "bytes" | "dict" | "num", v |-> ...].   *)
(***************************************************************************)
EXTENDS Integers, Sequences, FiniteSets, TLC

VARIABLES
    apis,   \* APIManager.apis: the registry, a dict kept in insertion order
    req,    \* the frame of the running RequestManager.request call
    gd,     \* the frame of the running RequestManager.get_data call
    ca,     \* the frame of the running APIsPlugin.call_api call
    mt,     \* the last APIManager.match_api_by_name call and its result
    pb,     \* the frame of the running RequestManager.batch_test_apis call
    rg      \* the files of the APIManager, its last operation and the values
            \* it has handed to its caller

vars == <<apis, req, gd, ca, mt, pb, rg>>

---------------------------------------------------------------------------
\* Bounds of the model.

\* longest URL list of one endpoint definition
MaxUrls == 3

\* most definitions in the registry
MaxApis == 2

---------------------------------------------------------------------------
\* Strings as token sequences.

\* all sequences over S of length lo..hi
SeqsOf(S, lo, hi) == UNION {[1..n -> S] : n \in lo..hi}

\* Python's  k in s  for two strings
IsSubstr(k, s) ==
    \E i \in 0..(Len(s) - Len(k)) : SubSeq(s, i + 1, i + Len(k)) = k

WhiteSpace == {" "}

RECURSIVE LStrip(_)
LStrip(s) == IF s # <<>> /\ Head(s) \in WhiteSpace THEN LStrip(Tail(s)) ELSE s

RECURSIVE RStrip(_)
RStrip(s) ==
    IF s # <<>> /\ s[Len(s)] \in WhiteSpace
    THEN RStrip(SubSeq(s, 1, Len(s) - 1))
    ELSE s

\* str.strip()
Strip(s) == RStrip(LStrip(s))

\* str.lower(), token by token
LowerTok(c) ==
    CASE c = "TEXT/" -> "text/"
      [] c = "APPLICATION/JSON" -> "application/json"
      [] OTHER -> c

Lower(s) == [i \in DOMAIN s |-> LowerTok(s[i])]

---------------------------------------------------------------------------
\* Python values.

NoneV == [t |-> "none"]
Str(s) == [t |-> "str", v |-> s]
Bytes(b) == [t |-> "bytes", v |-> b]
Dict(d) == [t |-> "dict", v |-> d]
List(l) == [t |-> "list", v |-> l]

\* dict.get(f, default) on a dict modelled as a record
Get(d, f, default) == IF f \in DOMAIN d THEN d[f] ELSE default

\* the dict d with d[f] = v
With(d, f, v) == [x \in DOMAIN d \cup {f} |-> IF x = f THEN v ELSE d[x]]

Range(s) == {s[i] : i \in DOMAIN s}

\* the result slot of a call that has not returned yet
Pending == [kind |-> "pending"]
Return(v) == [kind |-> "return", v |-> v]
Raise(e) == [kind |-> "raise", exc |-> e]

\* an exception raised by the attempt on the u-th URL of a list
Exc(what, u) == [what |-> what, at |-> u]

---------------------------------------------------------------------------
\* The remote side: URLs and the responses a GET can meet.

Url(scheme, netloc, path) == [scheme |-> scheme, netloc |-> netloc, path |-> path]

Urls ==
    { Url("https", "s1", "/a"), Url("https", "s1", "/b"), Url("https", "s2", "/a") }

\* the value resp.json() cannot produce: the body is not JSON
BadJson == [t |-> "badjson"]

Body(text, json) == [text |-> text, json |-> json]

Bodies ==
    { Body(<<>>, BadJson),
      Body(<<" ", "x", " ">>, BadJson),
      Body(<<"http://h/p">>, BadJson),
      Body(<<"<!DOCTYPE html>", "<p>", "x", "</p>">>, BadJson),
      Body(<<"{k:x}">>, Dict([k |-> Str(<<"x">>)])),
      Body(<<"{k:http://h/p}">>, Dict([k |-> Str(<<"http://h/p">>)])),
      Body(<<"{k:<!DOCTYPE html><p>x</p>}">>,
           Dict([k |-> Str(<<"<!DOCTYPE html>", "<p>", "x", "</p>">>)])),
      Body(<<"{k:{j:x}}">>, Dict([k |-> Dict([j |-> Str(<<"x">>)])])),
      Body(<<"{k:1}">>, Dict([k |-> [t |-> "int", v |-> 1]])),
      Body(<<"null">>, NoneV) }

ContentTypes ==
    { <<>>,
      <<"application/json">>,
      <<"TEXT/", "plain">>,
      <<"text/", "html", ";charset">>,
      <<"image/", "png">> }

\* what one GET can meet: a network error, a timeout, an error status, or
\* a 2xx answer with a content type and a body
Responses ==
    { [net |-> "error"], [net |-> "timeout"], [net |-> "ok", status |-> 404] }
    \cup [net : {"ok"}, status : {200}, ct : ContentTypes, body : Bodies]

\* a params dict is a token; NoParams is None or the empty dict (both falsy)
NoParams == "p_none"

---------------------------------------------------------------------------
\* RequestManager.request

NewRequest(urls, params, test_mode) ==
    [urls |-> urls, params |-> params, test_mode |-> test_mode,
     u |-> 1,               \* position of the for loop in urls
     inflight |-> {},       \* positions whose GET is awaiting its response
     last_exc |-> NoneV,
     ret |-> Pending,
     sent |-> <<>>,         \* history: the positions attempted, in order
     errors |-> <<>>,       \* history: the exceptions the attempts raised, in order
     ok_resp |-> NoneV]     \* history: the response of the attempt that returned

NoRequest == [NewRequest(<<>>, NoParams, FALSE) EXCEPT !.ret = Return(NoneV)]

\* the body of the try block for one response: what it returns or raises
Attempt(resp, u, test_mode) ==
    IF resp.net # "ok" THEN Raise(Exc(resp.net, u))
    ELSE IF resp.status >= 400 THEN Raise(Exc("status", u))
    ELSE IF test_mode THEN Return(NoneV)
    ELSE LET ct == Lower(resp.ct) IN
         IF IsSubstr(<<"application/json">>, ct)
         THEN IF resp.body.json = BadJson
              THEN Raise(Exc("decode", u))
              ELSE Return(resp.body.json)
         ELSE IF IsSubstr(<<"text/">>, ct)
         THEN Return(Str(Strip(resp.body.text)))
         ELSE Return(Bytes(resp.body.text))

\* history: the positions whose attempt raised
Failed(r) == {r.errors[k].at : k \in DOMAIN r.errors}

\* (mutant) the loop goes on after an attempt has returned
ReqCanSend_NoReturn(r) ==
    /\ r.inflight = {}
    /\ r.u <= Len(r.urls)

\* the loop may issue the GET of position r.u
ReqCanSend(r) ==
    /\ r.ret = Pending
    /\ r.inflight = {}
    /\ r.u <= Len(r.urls)

ReqSend(r) ==
    [r EXCEPT !.inflight = {r.u}, !.sent = Append(r.sent, r.u)]

ReqCanRecv(r) == r.ret = Pending /\ r.inflight # {}

\* (mutant) only the first exception is kept
ReqRecv_FirstExc(r, resp) ==
    LET u == CHOOSE x \in r.inflight : TRUE
        out == Attempt(resp, u, r.test_mode)
    IN  IF out.kind = "return"
        THEN [r EXCEPT !.inflight = {}, !.ret = out, !.ok_resp = resp]
        ELSE [r EXCEPT !.inflight = {},
                       !.last_exc = IF r.last_exc = NoneV THEN out.exc ELSE r.last_exc,
                       !.errors = Append(r.errors, out.exc),
                       !.u = r.u + 1]

\* the response of the GET in flight arrives
ReqRecv(r, resp) ==
    LET u == CHOOSE x \in r.inflight : TRUE
        out == Attempt(resp, u, r.test_mode)
    IN  IF out.kind = "return"
        THEN [r EXCEPT !.inflight = {}, !.ret = out, !.ok_resp = resp]
        ELSE [r EXCEPT !.inflight = {},
                       !.last_exc = out.exc,
                       !.errors = Append(r.errors, out.exc),
                       !.u = r.u + 1]

ReqCanEnd(r) ==
    /\ r.ret = Pending
    /\ r.inflight = {}
    /\ r.u > Len(r.urls)

\* the loop is over: raise the last exception, if there is one
ReqEnd(r) ==
    [r EXCEPT !.ret = IF r.last_exc # NoneV THEN Raise(r.last_exc) ELSE Return(NoneV)]

---------------------------------------------------------------------------
\* SpecFetch: one call of request on every URL list, against every remote.

UrlLists == SeqsOf(Urls, 0, MaxUrls)

InitFetch ==
    /\ apis = <<>>
    /\ req \in {NewRequest(l, p, t) : l \in UrlLists, p \in {"p_default"}, t \in BOOLEAN}
    /\ gd = NoneV
    /\ ca = NoneV
    /\ mt = NoneV
    /\ pb = NoneV
    /\ rg = NoneV

RequestSend ==
    /\ ReqCanSend(req)
    /\ req' = ReqSend(req)
    /\ UNCHANGED <<apis, gd, ca, mt, pb, rg>>

RequestRecv ==
    /\ ReqCanRecv(req)
    /\ \E resp \in Responses : req' = ReqRecv(req, resp)
    /\ UNCHANGED <<apis, gd, ca, mt, pb, rg>>

RequestEnd ==
    /\ ReqCanEnd(req)
    /\ req' = ReqEnd(req)
    /\ UNCHANGED <<apis, gd, ca, mt, pb, rg>>

NextFetch == RequestSend \/ RequestRecv \/ RequestEnd

SpecFetch == InitFetch /\ [][NextFetch]_vars

---------------------------------------------------------------------------
\* Helpers of core/utils.py and of BeautifulSoup, used by get_data.

UrlTokens == {"http://h/p"}
TagTokens == {"<!DOCTYPE html>", "<p>", "</p>"}

\* extract_url: the first absolute URL embedded in a string, or None
ExtractUrl(s) ==
    IF \E i \in DOMAIN s : s[i] \in UrlTokens
    THEN Str(<<s[CHOOSE i \in DOMAIN s :
                   /\ s[i] \in UrlTokens
                   /\ \A j \in 1..(i - 1) : s[j] \notin UrlTokens]>>)
    ELSE NoneV

\* get_nested_value: follow a dotted path into nested dicts
RECURSIVE GetNestedValue(_, _)
GetNestedValue(d, target) ==
    IF target = <<>> THEN d
    ELSE IF d.t = "dict" /\ Head(target) \in DOMAIN d.v
    THEN GetNestedValue(d.v[Head(target)], Tail(target))
    ELSE NoneV

\* dict_to_string: one "key: value" line per entry
DictToString(d) ==
    LET keys == DOMAIN d.v
        key == CHOOSE k \in keys : TRUE
    IN  IF keys = {} THEN Str(<<>>)
        ELSE Str(<<key, ": ">> \o (IF d.v[key].t = "str" THEN d.v[key].v ELSE <<"?">>))

RECURSIVE DropTokens(_, _)
DropTokens(s, drop) ==
    IF s = <<>> THEN <<>>
    ELSE IF Head(s) \in drop THEN DropTokens(Tail(s), drop)
    ELSE <<Head(s)>> \o DropTokens(Tail(s), drop)

\* BeautifulSoup(data).get_text(strip=True): the visible text only
GetText(s) == DropTokens(s, TagTokens \cup WhiteSpace)

---------------------------------------------------------------------------
\* RequestManager.get_data

NewGetData(urls, params, api_type, target) ==
    [urls |-> urls, params |-> params, api_type |-> api_type, target |-> target,
     pc |-> "first",        \* awaiting the first request, the second, or done
     url |-> NoneV,
     ret |-> Pending,
     first |-> Pending,     \* history: how the first request ended
     second |-> Pending,    \* history: how the redownload ended
     calls |-> <<[urls |-> urls, params |-> params]>>]   \* history: the request calls made

\* lines 62-79: path extraction, HTML stripping and the (text, byte) pair
Normalise(data0, target) ==
    LET data1 == IF data0.t = "dict" /\ target # <<>>
                 THEN LET nested_value == GetNestedValue(data0, target)
                      IN  IF nested_value.t = "dict"
                          THEN DictToString(nested_value)
                          ELSE nested_value
                 ELSE data0
        data2 == IF /\ data1.t = "str"
                    /\ Strip(data1.v) # <<>>
                    /\ Head(Strip(data1.v)) = "<!DOCTYPE html>"
                 THEN Str(GetText(data1.v))
                 ELSE data1
    IN  [text |-> IF data2.t = "str" THEN data2 ELSE NoneV,
         byte |-> IF data2.t = "bytes" THEN data2 ELSE NoneV]

\* (mutant) path extraction before the indirection step
GetDataFirst_ExtractFirst(g, r) ==
    IF r.ret.kind = "raise"
    THEN [g EXCEPT !.pc = "done", !.ret = r.ret, !.first = r.ret]
    ELSE LET data0 == r.ret.v
             data == IF data0.t = "dict" /\ g.target # <<>>
                     THEN GetNestedValue(data0, g.target) ELSE data0
             url == IF data.t = "str" /\ g.api_type # "text"
                    THEN ExtractUrl(data.v) ELSE NoneV
         IN  IF url # NoneV
             THEN [g EXCEPT !.pc = "second", !.url = url, !.first = r.ret,
                            !.calls = Append(g.calls, [urls |-> g.urls, params |-> NoParams])]
             ELSE [g EXCEPT !.pc = "done", !.first = r.ret,
                            !.ret = Return(Normalise(data0, g.target))]

\* (mutant) the indirection step also for definitions of type text
GetDataFirst_AnyType(g, r) ==
    IF r.ret.kind = "raise"
    THEN [g EXCEPT !.pc = "done", !.ret = r.ret, !.first = r.ret]
    ELSE LET data == r.ret.v
             url == IF data.t = "str" THEN ExtractUrl(data.v) ELSE NoneV
         IN  IF url # NoneV
             THEN [g EXCEPT !.pc = "second", !.url = url, !.first = r.ret,
                            !.calls = Append(g.calls, [urls |-> g.urls, params |-> NoParams])]
             ELSE [g EXCEPT !.pc = "done", !.first = r.ret,
                            !.ret = Return(Normalise(data, g.target))]

\* the first request is over (lines 51-60, then 62-79 when no redownload)
GetDataFirst(g, r) ==
    IF r.ret.kind = "raise"
    THEN [g EXCEPT !.pc = "done", !.ret = r.ret, !.first = r.ret]
    ELSE LET data == r.ret.v
             url == IF data.t = "str" /\ g.api_type # "text"
                    THEN ExtractUrl(data.v) ELSE NoneV
         IN  IF url # NoneV
             THEN [g EXCEPT !.pc = "second", !.url = url, !.first = r.ret,
                            !.calls = Append(g.calls, [urls |-> g.urls, params |-> NoParams])]
             ELSE [g EXCEPT !.pc = "done", !.first = r.ret,
                            !.ret = Return(Normalise(data, g.target))]

\* the redownload is over (lines 56-60, then 62-79)
GetDataSecond(g, r) ==
    IF r.ret.kind = "raise"
    THEN [g EXCEPT !.pc = "done", !.ret = r.ret, !.second = r.ret]
    ELSE LET downloaded == r.ret.v
         IN  IF downloaded.t = "bytes"
             THEN [g EXCEPT !.pc = "done", !.second = r.ret,
                            !.ret = Return(Normalise(downloaded, g.target))]
             ELSE [g EXCEPT !.pc = "done", !.second = r.ret,
                            !.ret = Raise([what |-> "RuntimeError", url |-> g.url])]

---------------------------------------------------------------------------
\* The local cache (core/local.py), seen through its two operations.

ApiTypes == {"text", "image"}

PathOf(api_type, path_name) == [dir |-> api_type, file |-> path_name]

\* save_data(api_type, path_name, text, byte): the stored text or the path
\* of the stored file, or a failure
SaveOutcomes(api_type, path_name, text, byte) ==
    { Return([text |-> text, path |-> NoneV]),
      Return([text |-> NoneV, path |-> PathOf(api_type, path_name)]),
      Raise([what |-> "IOError"]) }

\* get_data(api_type, path_name): earlier content of that endpoint, or a failure
LoadOutcomes(api_type, path_name) ==
    { Return([text |-> Str(<<"cached">>), path |-> NoneV]),
      Return([text |-> NoneV, path |-> PathOf(api_type, path_name)]),
      Raise([what |-> "NotFound"]) }

---------------------------------------------------------------------------
\* APIsPlugin.call_api

\* Python's  a or b  on params dicts
ParamsOr(a, b) == IF a # NoParams THEN a ELSE b

\* truth value of  api_text or api_byte
Truthy(v) == v.t \in {"str", "bytes"} /\ v.v # <<>>

NewCallApi(api_data, params) ==
    [api_data |-> api_data, params |-> params,
     pc |-> "get_data",     \* awaiting get_data, save_data, local get_data, or done
     ret |-> Pending,
     saves |-> <<>>,        \* history: the save_data calls, with their arguments
     loads |-> <<>>,        \* history: the local get_data calls, with their arguments
     save_out |-> NoneV,    \* history: what save_data answered
     load_out |-> NoneV]    \* history: what the local get_data answered

LoadCall(c) == [api_type |-> c.api_data.type, path_name |-> c.api_data.name]

\* (mutant) no except clause around get_data: its exception reaches the caller
CallApiGot_NoExcept(c, g) ==
    IF g.ret.kind = "raise"
    THEN [c EXCEPT !.pc = "done", !.ret = g.ret]
    ELSE IF Truthy(g.ret.v.text) \/ Truthy(g.ret.v.byte)
    THEN [c EXCEPT !.pc = "save",
                   !.saves = Append(c.saves,
                       [api_type |-> c.api_data.type, path_name |-> c.api_data.name,
                        text |-> g.ret.v.text, byte |-> g.ret.v.byte])]
    ELSE [c EXCEPT !.pc = "local", !.loads = Append(c.loads, LoadCall(c))]

\* get_data is over: hand the content to save_data, or go to the local cache
CallApiGot(c, g) ==
    IF g.ret.kind = "return" /\ (Truthy(g.ret.v.text) \/ Truthy(g.ret.v.byte))
    THEN [c EXCEPT !.pc = "save",
                   !.saves = Append(c.saves,
                       [api_type |-> c.api_data.type, path_name |-> c.api_data.name,
                        text |-> g.ret.v.text, byte |-> g.ret.v.byte])]
    ELSE [c EXCEPT !.pc = "local", !.loads = Append(c.loads, LoadCall(c))]

\* save_data is over: its failure is caught by the same except as get_data's
CallApiSaved(c, out) ==
    IF out.kind = "return"
    THEN [c EXCEPT !.pc = "done", !.save_out = out,
                   !.ret = Return([text |-> out.v.text, path |-> out.v.path, source |-> "api"])]
    ELSE [c EXCEPT !.pc = "local", !.save_out = out,
                   !.loads = Append(c.loads, LoadCall(c))]

\* the local get_data is over
CallApiLoaded(c, out) ==
    IF out.kind = "return"
    THEN [c EXCEPT !.pc = "done", !.load_out = out,
                   !.ret = Return([text |-> out.v.text, path |-> out.v.path, source |-> "local"])]
    ELSE [c EXCEPT !.pc = "done", !.load_out = out,
                   !.ret = Return([text |-> NoneV, path |-> NoneV, source |-> "error"])]

---------------------------------------------------------------------------
\* SpecResolve: one call of call_api on a normalised definition, against
\* every remote and every local cache.

\* the normalised definitions call_api is given
ApiDatas ==
    [name : {<<"a">>},
     urls : {[i \in 1..n |-> IF i % 2 = 1 THEN Url("https", "s1", "/a")
                                          ELSE Url("https", "s2", "/a")] : n \in 0..MaxUrls},
     type : ApiTypes,
     params : {"p_default"}, target : {<<>>, <<"k">>, <<"k", "j">>}, fuzzy : {FALSE}, priority : {0}]

InitResolve ==
    /\ apis = <<>>
    /\ \E d \in ApiDatas, p \in {NoParams, "p_user"} :
          /\ ca = NewCallApi(d, p)
          /\ gd = NewGetData(d.urls, ParamsOr(p, d.params), d.type, d.target)
          /\ req = NewRequest(d.urls, ParamsOr(p, d.params), FALSE)
    /\ mt = NoneV
    /\ pb = NoneV
    /\ rg = NoneV

GetDataRequest1 ==
    /\ gd.pc = "first"
    /\ req.ret # Pending
    /\ gd' = GetDataFirst(gd, req)
    /\ req' = IF gd'.pc = "second" THEN NewRequest(gd.urls, NoParams, FALSE) ELSE req
    /\ UNCHANGED <<apis, ca, mt, pb, rg>>

GetDataRequest2 ==
    /\ gd.pc = "second"
    /\ req.ret # Pending
    /\ gd' = GetDataSecond(gd, req)
    /\ UNCHANGED <<apis, req, ca, mt, pb, rg>>

CallApiGetData ==
    /\ ca.pc = "get_data"
    /\ gd.ret # Pending
    /\ ca' = CallApiGot(ca, gd)
    /\ UNCHANGED <<apis, req, gd, mt, pb, rg>>

CallApiSave ==
    /\ ca.pc = "save"
    /\ LET a == ca.saves[Len(ca.saves)]
       IN  \E out \in SaveOutcomes(a.api_type, a.path_name, a.text, a.byte) :
              ca' = CallApiSaved(ca, out)
    /\ UNCHANGED <<apis, req, gd, mt, pb, rg>>

CallApiLocal ==
    /\ ca.pc = "local"
    /\ LET a == ca.loads[Len(ca.loads)]
       IN  \E out \in LoadOutcomes(a.api_type, a.path_name) :
              ca' = CallApiLoaded(ca, out)
    /\ UNCHANGED <<apis, req, gd, mt, pb, rg>>

NextResolve ==
    \/ RequestSend \/ RequestRecv \/ RequestEnd
    \/ GetDataRequest1 \/ GetDataRequest2
    \/ CallApiGetData \/ CallApiSave \/ CallApiLocal

SpecResolve == InitResolve /\ [][NextResolve]_vars

---------------------------------------------------------------------------
\* APIManager: the registry and match_api_by_name.
\* The registry is a sequence of entries [key, raw]: a dict in insertion order.

DefaultApiType == "image"
AllowedTypes == {"text", "image", "video", "audio"}

\* position of key in the registry, 0 when absent
IndexOf(reg, key) ==
    IF \E i \in DOMAIN reg : reg[i].key = key
    THEN CHOOSE i \in DOMAIN reg : reg[i].key = key
    ELSE 0

\* self.apis.get(name, {})
RawOf(reg, name) ==
    IF IndexOf(reg, name) = 0 THEN <<>> ELSE reg[IndexOf(reg, name)].raw

NormalizeApiData(reg, name) ==
    LET raw_api == RawOf(reg, name)
        url == Get(raw_api, "url", Str(<<>>))
        api_type == Get(raw_api, "type", "")
        params == Get(raw_api, "params", NoParams)
    IN  [name |-> name,
         urls |-> IF url.t = "str" THEN <<url.v>> ELSE url.v,
         type |-> IF api_type \in AllowedTypes THEN api_type ELSE DefaultApiType,
         params |-> params,
         target |-> Get(raw_api, "target", <<>>),
         fuzzy |-> Get(raw_api, "fuzzy", FALSE),
         priority |-> Get(raw_api, "priority", 0)]

\* the keyword list of a definition; a single string counts as a list of one
KeywordsOf(raw_api) ==
    LET keywords == Get(raw_api, "keyword", List(<<>>))
    IN  IF keywords.t = "str" THEN <<keywords.v>> ELSE keywords.v

\* (mutant) the fuzzy flag is not consulted
IsMatched_AlwaysFuzzy(raw_api, msg) ==
    LET keywords == KeywordsOf(raw_api)
    IN  \/ \E i \in DOMAIN keywords : keywords[i] = msg
        \/ \E i \in DOMAIN keywords : IsSubstr(keywords[i], msg)

\* lines 140-146: exact match, else fuzzy match
IsMatched(raw_api, msg) ==
    LET keywords == KeywordsOf(raw_api)
    IN  IF \E i \in DOMAIN keywords : keywords[i] = msg
        THEN TRUE
        ELSE /\ Get(raw_api, "fuzzy", FALSE)
             /\ \E i \in DOMAIN keywords : IsSubstr(keywords[i], msg)

\* lines 133-150: the (priority, key, raw_api) triples, in registry order
RECURSIVE Matches(_, _)
Matches(reg, msg) ==
    IF reg = <<>> THEN <<>>
    ELSE LET e == Head(reg)
         IN  (IF IsMatched(e.raw, msg)
              THEN <<[priority |-> Get(e.raw, "priority", 0), key |-> e.key, raw |-> e.raw]>>
              ELSE <<>>) \o Matches(Tail(reg), msg)

\* x placed in a sequence sorted by descending priority, after its equals
RECURSIVE InsertByPriority(_, _)
InsertByPriority(x, sorted) ==
    IF sorted = <<>> THEN <<x>>
    ELSE IF Head(sorted).priority >= x.priority
    THEN <<Head(sorted)>> \o InsertByPriority(x, Tail(sorted))
    ELSE <<x>> \o sorted

\* (mutant) the sort without reverse=True: ascending priority
RECURSIVE SortByPriority_Ascending(_)
SortByPriority_Ascending(matches) ==
    IF matches = <<>> THEN <<>>
    ELSE LET rest == SortByPriority_Ascending(SubSeq(matches, 1, Len(matches) - 1))
             x == matches[Len(matches)]
             low == SelectSeq(rest, LAMBDA m : m.priority <= x.priority)
             high == SelectSeq(rest, LAMBDA m : m.priority > x.priority)
         IN  low \o <<x>> \o high

\* matches.sort(key=priority, reverse=True): stable, descending
RECURSIVE SortByPriority(_)
SortByPriority(matches) ==
    IF matches = <<>> THEN <<>>
    ELSE InsertByPriority(matches[Len(matches)],
                          SortByPriority(SubSeq(matches, 1, Len(matches) - 1)))

\* lines 159-160: the matches that share the priority of the first one
SamePriorityMatches(sorted) ==
    LET max_priority == sorted[1].priority
    IN  SelectSeq(sorted, LAMBDA m : m.priority = max_priority)

\* (mutant) no random choice: the first of the tied matches
Choice_First(same_priority_matches) == {same_priority_matches[1]}

\* random.choice: any element of the list
Choice(same_priority_matches) == Range(same_priority_matches)

\* find_api_matches, line 182: exact match or fuzzy match
IsMatchedInFind(raw_api, msg) ==
    LET keywords == KeywordsOf(raw_api)
    IN  \/ \E i \in DOMAIN keywords : keywords[i] = msg
        \/ /\ Get(raw_api, "fuzzy", FALSE)
           /\ \E i \in DOMAIN keywords : IsSubstr(keywords[i], msg)

\* find_api_matches, lines 173-187: the triples, in registry order
RECURSIVE MatchesInFind(_, _)
MatchesInFind(reg, msg) ==
    IF reg = <<>> THEN <<>>
    ELSE LET e == Head(reg)
         IN  (IF IsMatchedInFind(e.raw, msg)
              THEN <<[priority |-> Get(e.raw, "priority", 0), key |-> e.key, raw |-> e.raw]>>
              ELSE <<>>) \o MatchesInFind(Tail(reg), msg)

\* (mutant) the sort of find_api_matches without reverse=True
FindApiMatchesResult_Ascending(reg, msg) == SortByPriority_Ascending(MatchesInFind(reg, msg))

\* find_api_matches: the triples sorted by descending priority
FindApiMatchesResult(reg, msg) == SortByPriority(MatchesInFind(reg, msg))

\* what match_api_by_name(msg) can return on registry reg
MatchApiByNameResults(reg, msg) ==
    LET matches == Matches(reg, msg)
    IN  IF matches = <<>> THEN {NoneV}
        ELSE { NormalizeApiData(reg, selected.key) :
                 selected \in Choice(SamePriorityMatches(SortByPriority(matches))) }

---------------------------------------------------------------------------
\* SpecMatch: match_api_by_name on every trigger, on every registry that
\* load_data can read from the catalog file.

Letters == {"a", "b"}

\* the trigger strings
Triggers == SeqsOf(Letters, 0, 2)

\* the primary keywords, which are the keys of the registry
Names == {<<"a">>, <<"b">>, <<"a", "b">>}

\* the keyword field of a definition stored under key n
KeywordFields(n) == {Str(n), List(<<n>>), List(<<n, <<"a">>>>)}

\* the stored definitions: fuzzy and priority are optional fields
RawApis(n) ==
    LET base == [keyword : KeywordFields(n), url : {Str(Url("https", "s1", "/a"))}]
        fuzzy == base \cup {With(r, "fuzzy", TRUE) : r \in base}
    IN  fuzzy \cup {With(r, "priority", p) : r \in fuzzy, p \in {3, 5}}

\* the entries a registry can hold
Entries == UNION {[key : {n}, raw : RawApis(n)] : n \in Names}

HasDistinctKeys(reg) ==
    \A i, j \in DOMAIN reg : reg[i].key = reg[j].key => i = j

\* the registries of at most MaxApis definitions, in every order
Registries == {reg \in SeqsOf(Entries, 0, MaxApis) : HasDistinctKeys(reg)}

InitMatch ==
    /\ apis \in Registries
    /\ req = NoRequest
    /\ gd = NoneV
    /\ ca = NoneV
    /\ mt = NoneV
    /\ pb = NoneV
    /\ rg = NoneV

MatchApiByName ==
    /\ mt = NoneV
    /\ \E msg \in Triggers :
          \E result \in MatchApiByNameResults(apis, msg) :
             mt' = [op |-> "match_api_by_name", msg |-> msg, ret |-> result]
    /\ UNCHANGED <<apis, req, gd, ca, pb, rg>>

NextMatch == MatchApiByName

SpecMatch == InitMatch /\ [][NextMatch]_vars

---------------------------------------------------------------------------
\* SpecMatchAll: find_api_matches on every trigger, on the same registries.

FindApiMatchesCall ==
    /\ mt = NoneV
    /\ \E msg \in Triggers :
          mt' = [op |-> "find_api_matches", msg |-> msg,
                 ret |-> FindApiMatchesResult(apis, msg)]
    /\ UNCHANGED <<apis, req, gd, ca, pb, rg>>

NextMatchAll == FindApiMatchesCall

SpecMatchAll == InitMatch /\ [][NextMatchAll]_vars

---------------------------------------------------------------------------
\* RequestManager.batch_test_apis

EmptyUrl == Url("", "", "")

\* APIManager.extract_base_url: scheme://netloc, or the URL itself when it
\* has no scheme or no host
ExtractBaseUrl(full_url) ==
    IF full_url.scheme # "" /\ full_url.netloc # ""
    THEN Url(full_url.scheme, full_url.netloc, "")
    ELSE full_url

\* lines 90-100 for one definition: its probe entries, in URL order
EntriesOfApi(e) ==
    LET url == e.raw.url
        urls == IF url.t = "str" THEN <<url.v>> ELSE url.v
    IN  [j \in DOMAIN urls |->
            [api_name |-> e.key, url |-> urls[j], params |-> Get(e.raw, "params", NoParams)]]

\* site_to_entries[site].append(entry) on a defaultdict(list) kept in order
AppendEntry(groups, entry) ==
    LET site == ExtractBaseUrl(entry.url)
    IN  IF \E g \in DOMAIN groups : groups[g].site = site
        THEN [g \in DOMAIN groups |->
                 IF groups[g].site = site
                 THEN [groups[g] EXCEPT !.entries = Append(@, entry)]
                 ELSE groups[g]]
        ELSE Append(groups, [site |-> site, entries |-> <<entry>>])

RECURSIVE AppendEntries(_, _)
AppendEntries(groups, entries) ==
    IF entries = <<>> THEN groups
    ELSE AppendEntries(AppendEntry(groups, Head(entries)), Tail(entries))

\* lines 88-100: every definition's URLs, grouped by site
RECURSIVE SiteToEntries(_, _)
SiteToEntries(groups, reg) ==
    IF reg = <<>> THEN groups
    ELSE SiteToEntries(AppendEntries(groups, EntriesOfApi(Head(reg))), Tail(reg))

\* api_data["url"] raises KeyError at the first definition stored without a
\* url: the definitions before it are flattened, the others are not reached
Flattened(reg) ==
    LET missing == {i \in DOMAIN reg : "url" \notin DOMAIN reg[i].raw}
    IN  IF missing = {} THEN reg
        ELSE SubSeq(reg, 1, (CHOOSE i \in missing : \A j \in missing : i <= j) - 1)

NoProbe ==
    [pc |-> "idle", site_to_entries |-> <<>>, api_succeeded |-> <<>>,
     batch |-> <<>>, tasks |-> <<>>, ret |-> Pending,
     queued |-> <<>>,       \* history: the queues as the flattening left them
     rounds |-> 0,          \* history: the rounds started
     probed |-> <<>>,       \* history: the entries whose GET was issued, in order
     succeeded |-> {}]      \* history: the entries whose probe returned without error

\* the call, up to the while loop (lines 87-103)
ProbeStarted(reg) ==
    LET groups == SiteToEntries(<<>>, Flattened(reg))
    IN  IF Flattened(reg) # reg
        THEN [NoProbe EXCEPT !.pc = "done", !.ret = Raise([what |-> "KeyError"]),
                             !.site_to_entries = groups, !.queued = groups]
        ELSE [NoProbe EXCEPT
                !.pc = "loop",
                !.site_to_entries = groups, !.queued = groups,
                !.api_succeeded = [i \in DOMAIN reg |-> [key |-> reg[i].key, ok |-> FALSE]]]

\* any(site_to_entries.values())
AnyEntries(groups) == \E g \in DOMAIN groups : groups[g].entries # <<>>

\* (mutant) the inner while without its break: a round drains every queue
RECURSIVE Batch_NoBreak(_)
Batch_NoBreak(groups) ==
    IF groups = <<>> THEN <<>>
    ELSE Head(groups).entries \o Batch_NoBreak(Tail(groups))

\* lines 107-111: the first entry of every queue that has one
RECURSIVE Batch(_)
Batch(groups) ==
    IF groups = <<>> THEN <<>>
    ELSE (IF Head(groups).entries # <<>> THEN <<Head(Head(groups).entries)>> ELSE <<>>)
         \o Batch(Tail(groups))

\* entries.pop(0), as many times as the batch took entries of that queue
Popped(groups, batch) ==
    [g \in DOMAIN groups |->
        LET taken == Cardinality({i \in DOMAIN batch :
                                     ExtractBaseUrl(batch[i].url) = groups[g].site})
        IN  [groups[g] EXCEPT !.entries = SubSeq(@, taken + 1, Len(@))]]

\* lines 106-118: one more round is started and its tasks are created
ProbeRoundStarted(p) ==
    LET batch == Batch(p.site_to_entries)
    IN  [p EXCEPT !.pc = "gather",
                  !.site_to_entries = Popped(p.site_to_entries, batch),
                  !.batch = batch,
                  !.tasks = [i \in DOMAIN batch |->
                                NewRequest(<<batch[i].url>>, batch[i].params, TRUE)],
                  !.rounds = p.rounds + 1]

\* (mutant) the flag is assigned the outcome of each probe
Flag_Assigned(ok, res) == res.kind # "raise"

\* lines 122-125: the flag after one result
Flag(ok, res) == IF res.kind = "raise" THEN ok ELSE TRUE

\* lines 121-125: the flags after the results of a batch, taken in order
RECURSIVE FlagsAfter(_, _, _)
FlagsAfter(flags, batch, tasks) ==
    IF batch = <<>> THEN flags
    ELSE FlagsAfter(
             [i \in DOMAIN flags |->
                 IF flags[i].key = Head(batch).api_name
                 THEN [flags[i] EXCEPT !.ok = Flag(flags[i].ok, Head(tasks).ret)]
                 ELSE flags[i]],
             Tail(batch), Tail(tasks))

\* gather has every result: lines 121-125
ProbeGathered(p) ==
    [p EXCEPT !.pc = "loop",
              !.api_succeeded = FlagsAfter(p.api_succeeded, p.batch, p.tasks),
              !.succeeded = p.succeeded \cup
                  {p.batch[i] : i \in {j \in DOMAIN p.batch : p.tasks[j].ret.kind = "return"}}]

\* (mutant) the two lists are made of the names registered at the end
ProbeReturned_Live(p) ==
    LET ok(key) == \E i \in DOMAIN p.api_succeeded :
                      p.api_succeeded[i].key = key /\ p.api_succeeded[i].ok
    IN  [p EXCEPT !.pc = "done",
                  !.ret = Return(
                      [abled |-> [i \in DOMAIN SelectSeq(apis, LAMBDA e : ok(e.key)) |->
                                     SelectSeq(apis, LAMBDA e : ok(e.key))[i].key],
                       disabled |-> [i \in DOMAIN SelectSeq(apis, LAMBDA e : ~ok(e.key)) |->
                                        SelectSeq(apis, LAMBDA e : ~ok(e.key))[i].key]])]

\* lines 128-130: the two lists
ProbeReturned(p) ==
    [p EXCEPT !.pc = "done",
              !.ret = Return(
                  [abled |-> [i \in DOMAIN SelectSeq(p.api_succeeded, LAMBDA f : f.ok) |->
                                 SelectSeq(p.api_succeeded, LAMBDA f : f.ok)[i].key],
                   disabled |-> [i \in DOMAIN SelectSeq(p.api_succeeded, LAMBDA f : ~f.ok) |->
                                    SelectSeq(p.api_succeeded, LAMBDA f : ~f.ok)[i].key]])]

---------------------------------------------------------------------------
\* SpecProbe: one call of batch_test_apis on every registry of the prober's
\* catalog, against every remote.

ProbeNames == {<<"a">>, <<"b">>}

\* the URLs of the catalog, of two sites
UrlRing ==
    << Url("https", "s1", "/a"), Url("https", "s1", "/b"),
       Url("https", "s2", "/a"), Url("https", "s1", "/c") >>

\* the URL lists: the runs of at most MaxUrls consecutive URLs of the ring
ProbeUrlLists ==
    {<<>>} \cup
    { SubSeq(UrlRing, w[1], w[2]) :
        w \in {x \in (DOMAIN UrlRing) \X (DOMAIN UrlRing) : x[1] <= x[2] /\ x[2] - x[1] < MaxUrls} }

\* the stored definitions: url is a string, a list, or missing
ProbeRawApis(n) ==
    {[keyword |-> List(<<n>>)]}
    \cup {[keyword |-> List(<<n>>), url |-> Str(u)] : u \in {EmptyUrl, Url("https", "s2", "/b")}}
    \cup {[keyword |-> List(<<n>>), url |-> List(l)] : l \in ProbeUrlLists}

ProbeEntries == UNION {[key : {n}, raw : ProbeRawApis(n)] : n \in ProbeNames}

ProbeRegistries == {reg \in SeqsOf(ProbeEntries, 0, MaxApis) : HasDistinctKeys(reg)}

\* what a probe can meet
ProbeResponses ==
    { [net |-> "timeout"], [net |-> "ok", status |-> 404],
      [net |-> "ok", status |-> 200, ct |-> <<>>, body |-> Body(<<>>, BadJson)] }

InitProbe ==
    /\ apis \in ProbeRegistries
    /\ req = NoRequest
    /\ gd = NoneV
    /\ ca = NoneV
    /\ mt = NoneV
    /\ pb = NoProbe
    /\ rg = NoneV

BatchTestApis ==
    /\ pb.pc = "idle"
    /\ pb' = ProbeStarted(apis)
    /\ UNCHANGED <<apis, req, gd, ca, mt, rg>>

ProbeRound ==
    /\ pb.pc = "loop"
    /\ AnyEntries(pb.site_to_entries)
    /\ pb' = ProbeRoundStarted(pb)
    /\ UNCHANGED <<apis, req, gd, ca, mt, rg>>

ProbeTaskSend ==
    /\ pb.pc = "gather"
    /\ \E i \in DOMAIN pb.tasks :
          /\ ReqCanSend(pb.tasks[i])
          /\ pb' = [pb EXCEPT !.tasks[i] = ReqSend(pb.tasks[i]),
                              !.probed = Append(pb.probed, pb.batch[i])]
    /\ UNCHANGED <<apis, req, gd, ca, mt, rg>>

ProbeTaskRecv ==
    /\ pb.pc = "gather"
    /\ \E i \in DOMAIN pb.tasks :
          /\ ReqCanRecv(pb.tasks[i])
          /\ \E resp \in ProbeResponses :
                pb' = [pb EXCEPT !.tasks[i] = ReqRecv(pb.tasks[i], resp)]
    /\ UNCHANGED <<apis, req, gd, ca, mt, rg>>

ProbeTaskEnd ==
    /\ pb.pc = "gather"
    /\ \E i \in DOMAIN pb.tasks :
          /\ ReqCanEnd(pb.tasks[i])
          /\ pb' = [pb EXCEPT !.tasks[i] = ReqEnd(pb.tasks[i])]
    /\ UNCHANGED <<apis, req, gd, ca, mt, rg>>

ProbeGather ==
    /\ pb.pc = "gather"
    /\ \A i \in DOMAIN pb.tasks : pb.tasks[i].ret # Pending
    /\ pb' = ProbeGathered(pb)
    /\ UNCHANGED <<apis, req, gd, ca, mt, rg>>

ProbeReturn ==
    /\ pb.pc = "loop"
    /\ ~AnyEntries(pb.site_to_entries)
    /\ pb' = ProbeReturned(pb)
    /\ UNCHANGED <<apis, req, gd, ca, mt, rg>>

NextProbe ==
    \/ BatchTestApis \/ ProbeRound
    \/ ProbeTaskSend \/ ProbeTaskRecv \/ ProbeTaskEnd
    \/ ProbeGather \/ ProbeReturn

SpecProbe == InitProbe /\ [][NextProbe]_vars

---------------------------------------------------------------------------
\* APIManager: load_data, add_api and remove_api, and the two files.

\* a file: absent, or holding JSON text, or text that is not JSON, or bytes
\* that are not UTF-8
NoFile == [st |-> "absent"]
JsonFile(v) == [st |-> "json", v |-> v]
NotJsonFile == [st |-> "syntax"]
NotUtf8File == [st |-> "encoding"]

\* with open(path, "r", encoding="utf-8") as file: json.load(file)
JsonLoad(file) ==
    IF file.st = "json" THEN Return(file.v)
    ELSE IF file.st = "syntax" THEN Raise([what |-> "JSONDecodeError"])
    ELSE Raise([what |-> "UnicodeDecodeError"])

\* (mutant) nothing is written
SaveData_Nothing(m) == m

\* _save_data: json.dump(self.apis, file); the write itself is taken to succeed
SaveData(m) == [m EXCEPT !.apis_file = JsonFile(m.apis)]

\* the manager: its registry, its two files, how its running method ends
Manager(reg, apis_file, system_api_file) ==
    [apis |-> reg, apis_file |-> apis_file, system_api_file |-> system_api_file,
     ret |-> Return(NoneV)]

\* _initialize_from_system: only JSONDecodeError is caught
InitializeFromSystem(m) ==
    IF m.system_api_file.st # "absent"
    THEN LET out == JsonLoad(m.system_api_file)
         IN  IF out.kind = "return" THEN SaveData([m EXCEPT !.apis = out.v])
             ELSE IF out.exc.what = "JSONDecodeError" THEN [m EXCEPT !.apis = <<>>]
             ELSE [m EXCEPT !.ret = out]
    ELSE [m EXCEPT !.apis = <<>>]

\* load_data: only JSONDecodeError is caught
LoadData(m) ==
    IF m.apis_file.st = "absent" THEN InitializeFromSystem(m)
    ELSE LET out == JsonLoad(m.apis_file)
         IN  IF out.kind = "return" THEN [m EXCEPT !.apis = out.v]
             ELSE IF out.exc.what = "JSONDecodeError" THEN InitializeFromSystem(m)
             ELSE [m EXCEPT !.ret = out]

\* line 68: the first keyword of a list, or the keyword string itself;
\* [][0] raises IndexError
NameOf(api_info) ==
    IF "keyword" \in DOMAIN api_info /\ api_info.keyword.t = "list"
    THEN IF api_info.keyword.v = <<>>
         THEN Raise([what |-> "IndexError"])
         ELSE Return(api_info.keyword.v[1])
    ELSE Return(Get(api_info, "keyword", Str(<<>>)).v)

\* self.apis[name] = api_info: in place when the key exists, else at the end
SetItem(reg, name, api_info) ==
    IF IndexOf(reg, name) # 0
    THEN [reg EXCEPT ![IndexOf(reg, name)] = [key |-> name, raw |-> api_info]]
    ELSE Append(reg, [key |-> name, raw |-> api_info])

\* del self.apis[name]
DelItem(reg, name) == SelectSeq(reg, LAMBDA e : e.key # name)

\* (mutant) the definition is stored under its last keyword
AddApi_LastKeyword(m, api_info) ==
    LET name == NameOf(api_info)
        kw == KeywordsOf(api_info)
    IN  IF name.kind = "raise" THEN [m EXCEPT !.ret = name]
        ELSE IF name.v = <<>> THEN m
        ELSE SaveData([m EXCEPT !.apis = SetItem(m.apis, kw[Len(kw)], api_info)])

\* add_api: without a name it logs and returns, like a call that succeeded
AddApi(m, api_info) ==
    LET name == NameOf(api_info)
    IN  IF name.kind = "raise" THEN [m EXCEPT !.ret = name]
        ELSE IF name.v = <<>> THEN m
        ELSE SaveData([m EXCEPT !.apis = SetItem(m.apis, name.v, api_info)])

\* api_add of main.py: the reply tells a failure only when add_api raised
ApiAddReply(m) == IF m.ret.kind = "raise" THEN "failed" ELSE "added"

\* (mutant) the entry at the position of name goes, and the ones after it
RemoveApi_Truncate(m, name) ==
    IF IndexOf(m.apis, name) # 0
    THEN SaveData([m EXCEPT !.apis = SubSeq(m.apis, 1, IndexOf(m.apis, name) - 1)])
    ELSE m

\* remove_api
RemoveApi(m, name) ==
    IF IndexOf(m.apis, name) # 0
    THEN SaveData([m EXCEPT !.apis = DelItem(m.apis, name)])
    ELSE m

---------------------------------------------------------------------------
\* The values the APIManager hands to its caller, and what they share with
\* the registry. A handed value is [v, kind, of, shared]: the dict v, which
\* is a normalised definition or a stored one, the key it was made of, and
\* the parts of it that are the very objects the registry holds under that
\* key: "self" (the dict), "url" (its URL list), "params" (its params dict).

Handed(v, kind, of, shared) == [v |-> v, kind |-> kind, of |-> of, shared |-> shared]

\* the mutable objects a stored definition holds
NestedObjects(raw_api) ==
    {f \in {"url"} : f \in DOMAIN raw_api /\ raw_api[f].t = "list"}
    \cup {f \in {"params"} : f \in DOMAIN raw_api /\ raw_api[f] # NoParams}

\* (mutant) copy.copy: the new dict holds the same nested objects
DeepCopy_Shallow(h) == [h EXCEPT !.shared = h.shared \ {"self"}]

\* copy.deepcopy: nothing of the copy is shared
DeepCopy(h) == [h EXCEPT !.shared = {}]

\* normalize_api_data: the dict built at lines 115-123 holds the stored URL
\* list and the stored params dict; line 124 copies it
NormalizeHanded(reg, name) ==
    DeepCopy(Handed(NormalizeApiData(reg, name), "normalized", name,
                    NestedObjects(RawOf(reg, name))))

\* match_api_by_name: None, or the normalize_api_data of the selected key
MatchApiByNameHanded(reg, msg) ==
    { IF result = NoneV THEN <<>> ELSE <<NormalizeHanded(reg, result.name)>> :
        result \in MatchApiByNameResults(reg, msg) }

\* find_api_matches: the (priority, key, raw_api) triples, sorted; raw_api
\* is the stored dict
FindApiMatches(reg, msg) ==
    LET matches == FindApiMatchesResult(reg, msg)
    IN  [i \in DOMAIN matches |->
            Handed(matches[i].raw, "raw", matches[i].key,
                   {"self"} \cup NestedObjects(matches[i].raw))]

\* what a caller can do to a dict it was handed: assign its type, clear its
\* URL list, clear its params dict
Mutations == {"type", "url", "params"}

\* the field of the handed dict that holds the object
FieldOf(h, what) == IF what = "url" /\ h.kind = "normalized" THEN "urls" ELSE what

Mutable(h, what) ==
    \/ what = "type"
    \/ /\ FieldOf(h, what) \in DOMAIN h.v
       /\ IF what = "url" /\ h.kind = "raw" THEN h.v.url.t = "list" ELSE TRUE

\* the dict after the mutation
MutatedDict(d, field, what) ==
    With(d, field,
         CASE what = "type" -> "mutated"
           [] what = "params" -> NoParams
           [] what = "url" -> IF field = "urls" THEN <<>> ELSE List(<<>>))

\* the object that changes: the dict itself for an assignment to type, the
\* nested object otherwise
Touched(what) == IF what = "type" THEN "self" ELSE what

\* the registry after the caller has mutated the value it was handed
StoredAfter(reg, h, what) ==
    IF IndexOf(reg, h.of) # 0 /\ Touched(what) \in h.shared
    THEN [reg EXCEPT ![IndexOf(reg, h.of)].raw = MutatedDict(@, what, what)]
    ELSE reg

---------------------------------------------------------------------------
\* SpecRegistry: an APIManager is constructed on every pair of files, then
\* definitions are added, removed, normalised and matched in any order, and
\* the caller mutates what it was handed.

RegNames == {<<"a">>, <<"b">>}

\* the dicts add_api is given, as from_detail_str builds them
ApiInfos ==
    { <<>>,
      [keyword |-> Str(<<>>)],
      [keyword |-> List(<<>>), url |-> Str(Url("https", "s1", "/a"))],
      [keyword |-> Str(<<"a">>), url |-> Str(Url("https", "s1", "/a"))],
      [keyword |-> List(<< <<"a">>, <<"b">> >>), url |-> List(<<>>), type |-> "bogus"],
      [keyword |-> List(<< <<"a">> >>), type |-> "text", params |-> "p_default",
       url |-> List(<<Url("https", "s1", "/a"), Url("https", "s2", "/a")>>)],
      [keyword |-> List(<< <<"b">> >>), priority |-> 3],
      [keyword |-> List(<< <<"b">>, <<>> >>), url |-> Str(Url("https", "s2", "/a"))],
      [keyword |-> List(<< <<"b">>, <<"a">> >>), type |-> "video", params |-> NoParams,
       url |-> List(<<Url("https", "s2", "/a")>>)] }

\* the trigger strings
RegTriggers == RegNames \cup {<<>>}

\* the definitions a catalog file can hold, under their first keyword; the
\* catalogs hold no empty keyword
CatalogEntries ==
    { [key |-> NameOf(d).v, raw |-> d] :
        d \in {x \in ApiInfos : /\ NameOf(x).kind = "return"
                                /\ NameOf(x).v # <<>>
                                /\ <<>> \notin Range(KeywordsOf(x))} }

Catalogs == {reg \in SeqsOf(CatalogEntries, 0, MaxApis) : HasDistinctKeys(reg)}

\* the persisted store before the manager is constructed
ApisFiles == {NoFile, NotJsonFile, NotUtf8File} \cup {JsonFile(reg) : reg \in Catalogs}

\* the default catalog shipped with the plugin
SystemApiFiles ==
    {NoFile, NotJsonFile, NotUtf8File}
    \cup {JsonFile(reg) : reg \in {c \in Catalogs : Len(c) = 1 /\ "priority" \in DOMAIN c[1].raw}}

NoOp == [op |-> "none"]

\* rg.last is history: the operation, its argument, and the registry and
\* the persisted store as they were when it started
NewRegistry(apis_file, system_api_file) ==
    [pc |-> "new", apis_file |-> apis_file, system_api_file |-> system_api_file,
     ret |-> Return(NoneV), reply |-> "", out |-> <<>>,
     mutated |-> FALSE,     \* history: the caller has mutated a dict of rg.out
     last |-> NoOp]

Op(op, arg) == [op |-> op, arg |-> arg, apis |-> apis, apis_file |-> rg.apis_file]

\* the manager after a method, written back to the state
Written(m, op, reply, out) ==
    /\ apis' = m.apis
    /\ rg' = [rg EXCEPT !.pc = "ready", !.apis_file = m.apis_file, !.ret = m.ret,
                        !.reply = reply, !.out = out, !.mutated = FALSE, !.last = op]

ThisManager == [Manager(apis, rg.apis_file, rg.system_api_file) EXCEPT !.ret = Return(NoneV)]

InitRegistry ==
    /\ apis = <<>>
    /\ req = NoRequest
    /\ gd = NoneV
    /\ ca = NoneV
    /\ mt = NoneV
    /\ pb = NoneV
    /\ rg \in {NewRegistry(f, g) : f \in ApisFiles, g \in SystemApiFiles}

\* APIManager.__init__
RegLoadData ==
    /\ rg.pc = "new"
    /\ Written(LoadData(ThisManager), Op("load_data", NoneV), "", <<>>)
    /\ UNCHANGED <<req, gd, ca, mt, pb>>

Constructed == rg.pc = "ready" /\ ~(rg.last.op = "load_data" /\ rg.ret.kind = "raise")

\* the command that adds a definition
RegApiAdd ==
    /\ Constructed
    /\ \E api_info \in ApiInfos :
          LET m == AddApi(ThisManager, api_info)
          IN  Written(m, Op("add_api", api_info), ApiAddReply(m), <<>>)
    /\ UNCHANGED <<req, gd, ca, mt, pb>>

\* the command that removes a definition
RegRemoveApi ==
    /\ Constructed
    /\ \E name \in RegNames :
          Written(RemoveApi(ThisManager, name), Op("remove_api", name), "", <<>>)
    /\ UNCHANGED <<req, gd, ca, mt, pb>>

RegNormalize ==
    /\ Constructed
    /\ \E name \in RegNames :
          Written(ThisManager, Op("normalize_api_data", name), "",
                  <<NormalizeHanded(apis, name)>>)
    /\ UNCHANGED <<req, gd, ca, mt, pb>>

RegMatchApiByName ==
    /\ Constructed
    /\ \E msg \in RegTriggers : \E out \in MatchApiByNameHanded(apis, msg) :
          Written(ThisManager, Op("match_api_by_name", msg), "", out)
    /\ UNCHANGED <<req, gd, ca, mt, pb>>

RegFindApiMatches ==
    /\ Constructed
    /\ \E msg \in RegTriggers :
          Written(ThisManager, Op("find_api_matches", msg), "", FindApiMatches(apis, msg))
    /\ UNCHANGED <<req, gd, ca, mt, pb>>

\* the caller mutates one of the dicts of the last result
RegMutate ==
    /\ Constructed
    /\ rg.last.op \in {"normalize_api_data", "match_api_by_name", "find_api_matches"}
    /\ \E i \in DOMAIN rg.out, what \in Mutations :
          /\ Mutable(rg.out[i], what)
          /\ apis' = StoredAfter(apis, rg.out[i], what)
          /\ rg' = [rg EXCEPT !.out[i].v = MutatedDict(@, FieldOf(rg.out[i], what), what),
                              !.mutated = TRUE]
    /\ UNCHANGED <<req, gd, ca, mt, pb>>

NextRegistry ==
    \/ RegLoadData \/ RegApiAdd \/ RegRemoveApi
    \/ RegNormalize \/ RegMatchApiByName \/ RegFindApiMatches \/ RegMutate

SpecRegistry == InitRegistry /\ [][NextRegistry]_vars

---------------------------------------------------------------------------
\* SpecProbeSnapshot: one call of batch_test_apis, with the add and remove
\* commands running while the call awaits the probes of a round. The await
\* of asyncio.gather (request.py 118) is the only point at which the call
\* yields to the event loop; add_api and remove_api do not yield.

\* the registries the call starts on
SnapshotEntries ==
    { [key |-> <<"a">>, raw |-> [keyword |-> List(<<<<"a">>>>),
                                 url |-> List(SubSeq(UrlRing, 1, 2))]],
      [key |-> <<"a">>, raw |-> [keyword |-> List(<<<<"a">>>>)]],
      [key |-> <<"b">>, raw |-> [keyword |-> List(<<<<"b">>>>),
                                 url |-> List(<<Url("https", "s2", "/a"),
                                                Url("https", "s2", "/b")>>)]] }

SnapshotRegistries == {reg \in SeqsOf(SnapshotEntries, 0, MaxApis) : HasDistinctKeys(reg)}

\* the definitions added meanwhile: a new URL for b, and a without a url
SnapshotInfos ==
    { [keyword |-> List(<<<<"b">>>>), url |-> Str(Url("https", "s1", "/a"))],
      [keyword |-> List(<<<<"a">>>>)] }

InitProbeSnapshot ==
    /\ apis \in SnapshotRegistries
    /\ req = NoRequest
    /\ gd = NoneV
    /\ ca = NoneV
    /\ mt = NoneV
    /\ pb = NoProbe
    /\ rg = [NewRegistry(JsonFile(apis), NoFile) EXCEPT !.pc = "ready"]

\* the call starts; rg.last keeps the registry it started on
SnapshotBatchTestApis ==
    /\ pb.pc = "idle"
    /\ pb' = ProbeStarted(apis)
    /\ rg' = [rg EXCEPT !.last = Op("batch_test_apis", NoneV)]
    /\ UNCHANGED <<apis, req, gd, ca, mt>>

\* the add command, run while the call awaits a round
SnapshotApiAdd ==
    /\ pb.pc = "gather"
    /\ \E api_info \in SnapshotInfos :
          LET m == AddApi(ThisManager, api_info)
          IN  /\ apis' = m.apis
              /\ rg' = [rg EXCEPT !.apis_file = m.apis_file, !.ret = m.ret,
                                  !.reply = ApiAddReply(m)]
    /\ UNCHANGED <<req, gd, ca, mt, pb>>

\* the remove command, run while the call awaits a round
SnapshotRemoveApi ==
    /\ pb.pc = "gather"
    /\ \E name \in ProbeNames :
          LET m == RemoveApi(ThisManager, name)
          IN  /\ apis' = m.apis
              /\ rg' = [rg EXCEPT !.apis_file = m.apis_file, !.ret = m.ret, !.reply = ""]
    /\ UNCHANGED <<req, gd, ca, mt, pb>>

NextProbeSnapshot ==
    \/ SnapshotBatchTestApis \/ ProbeRound
    \/ ProbeTaskSend \/ ProbeTaskRecv \/ ProbeTaskEnd
    \/ ProbeGather \/ ProbeReturn
    \/ SnapshotApiAdd \/ SnapshotRemoveApi

SpecProbeSnapshot == InitProbeSnapshot /\ [][NextProbeSnapshot]_vars

---------------------------------------------------------------------------
\* APIsPlugin.match_api: the handler of every message. mt holds the handler:
\* its configuration, the message, and how far it has got.

\* a URL as the string the registry stores
UrlStr(u) ==
    (IF u.scheme # "" THEN <<u.scheme, "://">> ELSE <<>>)
    \o (IF u.netloc # "" THEN <<u.netloc>> ELSE <<>>)
    \o (IF u.path # "" THEN <<u.path>> ELSE <<>>)

\* str.startswith
StartsWith(s, prefix) ==
    /\ Len(prefix) <= Len(s)
    /\ SubSeq(s, 1, Len(prefix)) = prefix

\* message_str.split(" ")[0]
FirstWord(s) ==
    IF \E i \in DOMAIN s : s[i] = " "
    THEN SubSeq(s, 1, (CHOOSE i \in DOMAIN s :
                          s[i] = " " /\ \A j \in 1..(i - 1) : s[j] # " ") - 1)
    ELSE s

\* msgs[1:] is not empty
HasArgs(s) == \E i \in DOMAIN s : s[i] = " "

NewHandler(conf, message_str, wake) ==
    [pc |-> "new", conf |-> conf, message_str |-> message_str,
     is_at_or_wake_command |-> wake,
     api_data |-> NoneV,    \* what match_api_by_name returned
     sent |-> <<>>,         \* history: the messages sent with event.send
     stopped |-> FALSE,     \* event.stop_event() was called
     removed |-> <<>>]      \* history: the files removed

\* (mutant) only the first URL is compared with the disabled sites
MatchApiChecked_FirstUrl(h, api_data) ==
    IF h.conf.prefix_mode /\ ~h.is_at_or_wake_command
    THEN [h EXCEPT !.pc = "returned"]
    ELSE IF api_data = NoneV
    THEN [h EXCEPT !.pc = "returned"]
    ELSE IF api_data.name \in h.conf.disabled_apis
    THEN [h EXCEPT !.pc = "returned", !.api_data = api_data]
    ELSE IF \E i \in DOMAIN api_data.urls, j \in DOMAIN h.conf.disabled_sites :
               /\ i = 1
               /\ h.conf.disabled_sites[j] # <<>>
               /\ StartsWith(UrlStr(api_data.urls[i]), h.conf.disabled_sites[j])
    THEN [h EXCEPT !.pc = "returned", !.api_data = api_data]
    ELSE IF api_data.type \notin h.conf.enabled_types
    THEN [h EXCEPT !.pc = "returned", !.api_data = api_data]
    ELSE [h EXCEPT !.pc = "call_api", !.api_data = api_data]

\* lines 152-179: the handler returns, or goes on to call_api
MatchApiChecked(h, api_data) ==
    IF h.conf.prefix_mode /\ ~h.is_at_or_wake_command
    THEN [h EXCEPT !.pc = "returned"]
    ELSE IF api_data = NoneV
    THEN [h EXCEPT !.pc = "returned"]
    ELSE IF api_data.name \in h.conf.disabled_apis
    THEN [h EXCEPT !.pc = "returned", !.api_data = api_data]
    ELSE IF \E i \in DOMAIN api_data.urls, j \in DOMAIN h.conf.disabled_sites :
               /\ h.conf.disabled_sites[j] # <<>>
               /\ StartsWith(UrlStr(api_data.urls[i]), h.conf.disabled_sites[j])
    THEN [h EXCEPT !.pc = "returned", !.api_data = api_data]
    ELSE IF api_data.type \notin h.conf.enabled_types
    THEN [h EXCEPT !.pc = "returned", !.api_data = api_data]
    ELSE [h EXCEPT !.pc = "call_api", !.api_data = api_data]

\* lines 182-191: the params call_api is given. The arguments of the message
\* replace values of the definition's params; without arguments the reply,
\* the mention or the sender's name may
UpdateParams(params, has_args) ==
    IF params = NoParams THEN {NoParams}
    ELSE IF has_args THEN {"p_user"}
    ELSE {params, "p_user"}

\* data_to_chain
DataToChain(api_type, text, path) ==
    IF api_type = "text" /\ Truthy(text) THEN <<[plain |-> text]>>
    ELSE IF api_type # "text" /\ path # NoneV THEN <<[file |-> path, as |-> api_type]>>
    ELSE <<>>

\* lines 193-212: call_api is over
MatchApiCalled(h, c) ==
    IF c.ret.kind = "raise"
    THEN [h EXCEPT !.pc = "returned",
                   !.sent = IF h.conf.debug THEN Append(h.sent, <<[error |-> c.ret.exc]>>)
                            ELSE h.sent]
    ELSE [h EXCEPT !.pc = "done",
                   !.sent = Append(h.sent,
                                   DataToChain(h.api_data.type, c.ret.v.text, c.ret.v.path)),
                   !.stopped = TRUE,
                   !.removed = IF /\ c.ret.v.source = "api"
                                  /\ c.ret.v.path # NoneV
                                  /\ ~h.conf.auto_save
                               THEN Append(h.removed, c.ret.v.path) ELSE h.removed]

---------------------------------------------------------------------------
\* SpecHandler: one message handled by match_api, on every registry of the
\* handler's catalog, under every configuration, against every remote and
\* every local cache.

\* the stored definitions: a has two URLs, of two sites; b is also
\* triggered by a and has the same priority
HandlerEntries ==
    {[key |-> <<"a">>,
      raw |-> [keyword |-> List(<<<<"a">>>>),
               url |-> List(<<Url("https", "s1", "/a"), Url("https", "s2", "/a")>>),
               type |-> t, params |-> "p_default"]] : t \in {"text", "image"}}
    \cup
    {[key |-> <<"b">>,
      raw |-> [keyword |-> List(<<<<"b">>, <<"a">>>>), url |-> Str(Url("https", "s2", "/a"))]]}

HandlerRegistries == {reg \in SeqsOf(HandlerEntries, 1, MaxApis) : HasDistinctKeys(reg)}

\* disabled_sites: nothing, an empty entry, one site after an empty entry
DisabledSites ==
    { <<>>, << <<>> >>, << <<>>, <<"https", "://", "s1">> >>, << <<"https", "://", "s2">> >> }

Confs ==
    [prefix_mode : BOOLEAN,
     disabled_apis : {{}, {<<"a">>}},
     disabled_sites : DisabledSites,
     enabled_types : {AllowedTypes, {"text"}},
     debug : {FALSE},
     auto_save : {FALSE}]

MessageStrs == { <<"a">>, <<"b">>, <<"a", " ", "b">>, <<>> }

InitHandler ==
    /\ apis \in HandlerRegistries
    /\ req = NoRequest
    /\ gd = NoneV
    /\ ca = NoneV
    /\ mt \in {NewHandler(conf, s, wake) :
                 conf \in Confs, s \in MessageStrs, wake \in BOOLEAN}
    /\ pb = NoneV
    /\ rg = NoneV

\* the handler up to its first await of call_api, or to its return
MatchApi ==
    /\ mt.pc = "new"
    /\ \E api_data \in MatchApiByNameResults(apis, FirstWord(mt.message_str)) :
          LET h == MatchApiChecked(mt, api_data)
          IN  /\ mt' = h
              /\ IF h.pc = "call_api"
                 THEN \E p \in UpdateParams(api_data.params, HasArgs(mt.message_str)) :
                         /\ ca' = NewCallApi(api_data, p)
                         /\ gd' = NewGetData(api_data.urls, ParamsOr(p, api_data.params),
                                             api_data.type, api_data.target)
                         /\ req' = NewRequest(api_data.urls, ParamsOr(p, api_data.params),
                                              FALSE)
                 ELSE UNCHANGED <<req, gd, ca>>
    /\ UNCHANGED <<apis, pb, rg>>

\* call_api runs
MatchApiCallApi ==
    /\ mt.pc = "call_api"
    /\ NextResolve

\* call_api is over: the message is sent
MatchApiSend ==
    /\ mt.pc = "call_api"
    /\ ca.ret # Pending
    /\ mt' = MatchApiCalled(mt, ca)
    /\ UNCHANGED <<apis, req, gd, ca, pb, rg>>

NextHandler == MatchApi \/ MatchApiCallApi \/ MatchApiSend

SpecHandler == InitHandler /\ [][NextHandler]_vars

---------------------------------------------------------------------------
\* Properties of request, checked under SpecFetch.

\* the content the specification asks of a 2xx response: parsed JSON for
\* application/json, trimmed text for text/*, the raw bytes otherwise
DecodedContent(resp) ==
    IF IsSubstr(<<"application/json">>, Lower(resp.ct)) THEN resp.body.json
    ELSE IF IsSubstr(<<"text/">>, Lower(resp.ct)) THEN Str(Strip(resp.body.text))
    ELSE Bytes(resp.body.text)

\* C1: one request call attempts the URLs strictly in list order with at
\* most one attempt in flight; position i is attempted only after positions
\* 1..i-1 were each attempted once and raised; nothing is attempted after
\* the first attempt that returns, and the call then returns that
\* response's decoded content (nothing in test mode) without raising.
C1_SequentialFailover ==
    /\ Cardinality(req.inflight) <= 1
    /\ req.sent = [k \in 1..Len(req.sent) |-> k]
    /\ Len(req.sent) <= Len(req.urls)
    /\ [k \in DOMAIN req.errors |-> req.errors[k].at] = [k \in DOMAIN req.errors |-> k]
    /\ \A k \in 1..(Len(req.sent) - 1) : k \in Failed(req)
    /\ Failed(req) \subseteq 1..Len(req.sent)
    /\ req.inflight \subseteq {Len(req.sent)} \ Failed(req)
    /\ req.ok_resp # NoneV =>
          /\ req.inflight = {}
          /\ Len(req.sent) \notin Failed(req)
          /\ req.ret = Return(IF req.test_mode THEN NoneV ELSE DecodedContent(req.ok_resp))

C1_Witness ==
    /\ req.sent = <<1, 2>>
    /\ Failed(req) = {1}
    /\ Len(req.urls) = 3
    /\ ~req.test_mode
    /\ req.ret.kind = "return"
    /\ req.ret.v = Str(<<"x">>)

\* C2: when the list is not empty and every URL in it failed, the call
\* ends by raising the exception of the last URL of the list; it returns
\* no value.
C2_AllFailedRaisesLast ==
    (req.ret # Pending /\ req.urls # <<>> /\ Failed(req) = 1..Len(req.urls)) =>
        /\ req.ret.kind = "raise"
        /\ req.ret.exc = req.errors[Len(req.urls)]
        /\ req.ret.exc.at = Len(req.urls)

C2_Witness ==
    /\ req.ret.kind = "raise"
    /\ Len(req.urls) = 2
    /\ Failed(req) = {1, 2}
    /\ req.errors[1].what = "timeout"
    /\ req.errors[2].what = "status"
    /\ req.ret.exc = Exc("status", 2)

---------------------------------------------------------------------------
\* Properties of call_api, checked under SpecResolve.

\* the fetch pipeline failed: every URL of the list was attempted and raised
AllUrlsFailed ==
    /\ gd.ret.kind = "raise"
    /\ req.urls # <<>>
    /\ Failed(req) = 1..Len(req.urls)

\* C3: call_api never raises; the local cache is not read before get_data
\* is over; when the pipeline failed the cache is read exactly once, for
\* the definition's name and type, nothing is saved, and the result is
\* tagged local with the loaded reference if the load succeeds and is
\* (none, none, error) if it fails.
C3_FallbackToLocal ==
    /\ ca.ret.kind \in {"pending", "return"}
    /\ ca.pc = "done" <=> ca.ret.kind = "return"
    /\ ca.loads # <<>> => (gd.ret # Pending /\ req.ret # Pending /\ req.inflight = {})
    /\ (gd.ret.kind = "raise" /\ ca.pc # "get_data") =>
          /\ ca.loads = <<[api_type |-> ca.api_data.type, path_name |-> ca.api_data.name]>>
          /\ ca.saves = <<>>
          /\ ca.pc \in {"local", "done"}
          /\ ca.pc = "done" =>
                /\ ca.load_out.kind = "return" =>
                      ca.ret.v = [text |-> ca.load_out.v.text,
                                  path |-> ca.load_out.v.path, source |-> "local"]
                /\ ca.load_out.kind = "raise" =>
                      ca.ret.v = [text |-> NoneV, path |-> NoneV, source |-> "error"]

C3_Witness ==
    /\ AllUrlsFailed
    /\ Len(req.urls) = 2
    /\ ca.pc = "done"
    /\ ca.load_out.kind = "return"
    /\ ca.ret.v.source = "local"
    /\ ca.ret.v.path # NoneV

\* C4 (as claimed): whenever get_data produced content, call_api hands it to
\* save_data exactly once, the result is tagged api and never local or
\* error, and the local cache is never read, also when save_data fails.
C4_ContentIsRemote ==
    (/\ gd.ret.kind = "return"
     /\ (Truthy(gd.ret.v.text) \/ Truthy(gd.ret.v.byte))
     /\ ca.pc # "get_data") =>
        /\ Len(ca.saves) = 1
        /\ ca.loads = <<>>
        /\ ca.pc = "done" => ca.ret.v.source = "api"

---------------------------------------------------------------------------
\* Properties of match_api_by_name, checked under SpecMatch.

\* a definition matches a trigger iff the trigger equals one of its keywords,
\* or its fuzzy flag is true and one of its keywords is a substring of it
ClaimMatches(raw_api, msg) ==
    \/ msg \in Range(KeywordsOf(raw_api))
    \/ /\ "fuzzy" \in DOMAIN raw_api /\ raw_api.fuzzy = TRUE
       /\ \E k \in Range(KeywordsOf(raw_api)) : IsSubstr(k, msg)

\* the keys of the registered definitions that match msg
MatchingKeys(msg) ==
    {apis[i].key : i \in {j \in DOMAIN apis : ClaimMatches(apis[j].raw, msg)}}

\* the priority of the definition stored under key: 0 when it has none
PriorityOf(key) ==
    LET raw_api == apis[CHOOSE i \in DOMAIN apis : apis[i].key = key].raw
    IN  IF "priority" \in DOMAIN raw_api THEN raw_api.priority ELSE 0

\* the matching definitions of maximum priority
TiedKeys(msg) ==
    LET matching == MatchingKeys(msg)
        top == CHOOSE p \in {PriorityOf(k) : k \in matching} :
                   \A o \in matching : PriorityOf(o) <= p
    IN  IF matching = {} THEN {} ELSE {k \in matching : PriorityOf(k) = top}

Called == mt # NoneV
Found == mt # NoneV /\ mt.ret # NoneV

\* C5: the definition match_api_by_name returns has the maximum priority
\* among all definitions that match the trigger, a missing priority being 0;
\* a matching definition of strictly lower priority is never returned.
C5_MaxPriorityWins ==
    Found =>
        LET matching == MatchingKeys(mt.msg)
        IN  /\ mt.ret.name \in matching
            /\ mt.ret.priority = PriorityOf(mt.ret.name)
            /\ \A k \in matching : PriorityOf(k) <= mt.ret.priority

C5_Witness ==
    /\ Found
    /\ mt.ret.priority = 5
    /\ \E k \in MatchingKeys(mt.msg) : PriorityOf(k) = 3

\* C6: match_api_by_name returns None exactly when no registered definition
\* matches; what it returns matches; a definition that is not fuzzy is
\* returned only for a trigger equal to one of its keywords, and a keyword
\* longer than the trigger never makes a match.
C6_NoneIffNoMatch ==
    Called =>
        /\ mt.ret = NoneV <=> MatchingKeys(mt.msg) = {}
        /\ Found =>
              LET keywords == Range(KeywordsOf(RawOf(apis, mt.ret.name)))
              IN  /\ mt.ret.name \in MatchingKeys(mt.msg)
                  /\ ~mt.ret.fuzzy => mt.msg \in keywords
                  /\ \E k \in keywords : Len(k) <= Len(mt.msg) /\ IsSubstr(k, mt.msg)

\* the trigger equals the keyword of a definition that is not fuzzy, while a
\* fuzzy definition with a longer keyword containing the trigger is registered
C6_Witness ==
    /\ Found
    /\ mt.msg = <<"a">>
    /\ mt.ret.name = <<"a">>
    /\ ~mt.ret.fuzzy
    /\ \E i \in DOMAIN apis :
          /\ apis[i].key = <<"a", "b">>
          /\ apis[i].raw.keyword = List(<<(<<"a", "b">>)>>)
          /\ "fuzzy" \in DOMAIN apis[i].raw

\* the registry with the definitions at positions i and i + 1 exchanged;
\* every order of a registry is reached by such exchanges, and every
\* registry so obtained is a registry of SpecMatch
Exchanged(reg, i) ==
    [j \in DOMAIN reg |-> IF j = i THEN reg[i + 1] ELSE IF j = i + 1 THEN reg[i] ELSE reg[j]]

\* the keys of the definitions a call can return
PossibleKeys(reg, msg) ==
    {result.name : result \in MatchApiByNameResults(reg, msg) \ {NoneV}}

\* C7: when several matching definitions share the maximum priority, the
\* call returns one of exactly those; each of them is a possible result of
\* the call; and the possible results do not depend on the registration
\* order.  (random.choice is a free choice here: the model says which
\* results are possible, not how likely each is.)
C7_AnyOfTheTied ==
    Called =>
        LET tied == TiedKeys(mt.msg)
        IN  /\ Found => mt.ret.name \in tied
            /\ PossibleKeys(apis, mt.msg) = tied
            /\ \A i \in 1..(Len(apis) - 1) : PossibleKeys(Exchanged(apis, i), mt.msg) = tied

\* two tied definitions, and the call returned the one registered later
C7_Witness ==
    /\ Found
    /\ Cardinality(TiedKeys(mt.msg)) >= 2
    /\ \E i, j \in DOMAIN apis :
          /\ i < j
          /\ apis[i].key \in TiedKeys(mt.msg)
          /\ apis[j].key = mt.ret.name

---------------------------------------------------------------------------
\* Properties of batch_test_apis, checked under SpecProbe.

\* the URL list of a stored definition
UrlsOf(raw_api) ==
    IF "url" \notin DOMAIN raw_api THEN <<>>
    ELSE IF raw_api.url.t = "str" THEN <<raw_api.url.v>> ELSE raw_api.url.v

\* every (endpoint, URL) of the registry
RegisteredProbes ==
    UNION { {[api_name |-> apis[i].key, url |-> u] : u \in Range(UrlsOf(apis[i].raw))} :
            i \in DOMAIN apis }

Probe(entry) == [api_name |-> entry.api_name, url |-> entry.url]

\* the endpoints of which some probe returned without error, so far
Reached == {e.api_name : e \in pb.succeeded}

Flags == {<<pb.api_succeeded[i].key, pb.api_succeeded[i].ok>> : i \in DOMAIN pb.api_succeeded}

\* C8: when batch_test_apis returns, an endpoint is in the available list
\* iff one of its probes returned without error in some round; a flag is
\* false until a probe of the endpoint has succeeded and is true from the
\* end of that round on, whatever the later probes of the endpoint do.
C8_AvailableIffReached ==
    /\ \A f \in Flags : f[2] => f[1] \in Reached
    /\ pb.pc \in {"loop", "done"} /\ pb.ret.kind # "raise" =>
          \A f \in Flags : f[1] \in Reached => f[2]
    /\ pb.ret.kind = "return" =>
          /\ Range(pb.ret.v.abled) = Reached
          /\ Reached \subseteq {apis[i].key : i \in DOMAIN apis}

\* an endpoint whose first probe succeeded and whose later probe failed
C8_Witness ==
    /\ pb.ret.kind = "return"
    /\ \E i, j \in DOMAIN pb.probed :
          /\ i < j
          /\ pb.probed[i].api_name = pb.probed[j].api_name
          /\ pb.probed[i] \in pb.succeeded
          /\ pb.probed[j] \notin pb.succeeded
          /\ pb.probed[i].api_name \in Range(pb.ret.v.abled)

\* the length of the longest queue the flattening formed
LongestQueue ==
    LET lens == {Len(pb.queued[g].entries) : g \in DOMAIN pb.queued}
    IN  IF lens = {} THEN 0 ELSE CHOOSE n \in lens : \A o \in lens : o <= n

\* the queues hold one entry per registered (endpoint, URL) reached by the
\* flattening, each in the queue of its origin, one queue per origin
QueuedByOrigin ==
    /\ \A g, h \in DOMAIN pb.queued : pb.queued[g].site = pb.queued[h].site => g = h
    /\ \A g \in DOMAIN pb.queued :
          \A e \in Range(pb.queued[g].entries) :
             /\ Probe(e) \in RegisteredProbes
             /\ e.url.scheme # "" /\ e.url.netloc # "" =>
                   /\ pb.queued[g].site.scheme = e.url.scheme
                   /\ pb.queued[g].site.netloc = e.url.netloc

\* round r takes the r-th entry of every queue that has one
RoundByRound ==
    /\ pb.pc \in {"loop", "gather"} =>
          \A g \in DOMAIN pb.queued :
             pb.site_to_entries[g].entries =
                 SubSeq(pb.queued[g].entries, pb.rounds + 1, Len(pb.queued[g].entries))
    /\ pb.pc = "gather" =>
          /\ Range(pb.batch) =
                {pb.queued[g].entries[pb.rounds] :
                    g \in {h \in DOMAIN pb.queued : Len(pb.queued[h].entries) >= pb.rounds}}
          /\ Len(pb.batch) = Cardinality(Range(pb.batch))

\* C9 (as claimed): batch_test_apis executes exactly as many rounds as the
\* longest origin queue has entries, each round taking exactly one entry of
\* every queue that is not empty.
C9_RoundsEqualLongestQueue ==
    /\ QueuedByOrigin
    /\ RoundByRound
    /\ pb.rounds <= LongestQueue
    /\ pb.pc = "done" => pb.rounds = LongestQueue

\* the same, for the calls that get past the flattening (no KeyError)
ProbeRoundsOnceFlattened ==
    pb.ret.kind # "raise" => C9_RoundsEqualLongestQueue

\* two origins with 3 and 1 entries, probed in 3 rounds
ProbeRoundsOnceFlattened_Witness ==
    /\ pb.ret.kind = "return"
    /\ pb.rounds = 3
    /\ {Len(pb.queued[g].entries) : g \in DOMAIN pb.queued} = {1, 3}

\* C10 (as claimed): for every registry, batch_test_apis ends without
\* raising, has then probed every URL of every registered endpoint exactly
\* once, and returns two disjoint lists that together hold every registered
\* endpoint name once, the unavailable ones being those whose probes all
\* failed.
C10_ProbeAllTotal ==
    /\ pb.ret.kind # "raise"
    /\ Len(pb.probed) = Cardinality(Range(pb.probed))
    /\ {Probe(e) : e \in Range(pb.probed)} \subseteq RegisteredProbes
    /\ pb.pc = "done" =>
          /\ {Probe(e) : e \in Range(pb.probed)} = RegisteredProbes
          /\ Range(pb.ret.v.abled) \cap Range(pb.ret.v.disabled) = {}
          /\ Range(pb.ret.v.abled) \cup Range(pb.ret.v.disabled) = {apis[i].key : i \in DOMAIN apis}
          /\ Len(pb.ret.v.abled) + Len(pb.ret.v.disabled) = Len(apis)
          /\ Range(pb.ret.v.disabled) \cap Reached = {}

\* the same, for the calls that get past the flattening (no KeyError)
ProbeAllOnceFlattened ==
    (pb.pc = "idle" \/ Flattened(apis) = apis) => C10_ProbeAllTotal

---------------------------------------------------------------------------
\* Properties of get_data, checked under SpecResolve.

\* C11 (as claimed): a call of get_data whose fetch succeeded and that
\* returns has exactly one of text and byte populated; with a final value
\* that is neither a string nor bytes it does not return (None, None).
C11_ExactlyOneOfTextByte ==
    (gd.ret.kind = "return" /\ req.ok_resp # NoneV) =>
        (gd.ret.v.text # NoneV) # (gd.ret.v.byte # NoneV)

\* the same for the final values that are strings or bytes
TextOrByteOfFinalValue ==
    gd.ret.kind = "return" =>
        /\ ~(gd.ret.v.text # NoneV /\ gd.ret.v.byte # NoneV)
        /\ gd.ret.v.text # NoneV => gd.ret.v.text.t = "str"
        /\ gd.ret.v.byte # NoneV => gd.ret.v.byte.t = "bytes"

\* the first request gave a JSON mapping in which target leads to a string
ResolvesToString ==
    /\ gd.first.kind = "return"
    /\ gd.first.v.t = "dict"
    /\ gd.target # <<>>
    /\ \A n \in 1..Len(gd.target) :
          LET at == GetNestedValue(gd.first.v, SubSeq(gd.target, 1, n - 1))
          IN  at.t = "dict" /\ gd.target[n] \in DOMAIN at.v
    /\ GetNestedValue(gd.first.v, gd.target).t = "str"

ResolvedString == GetNestedValue(gd.first.v, gd.target)

\* a string that begins with an HTML document declaration
IsHtmlDocument(s) ==
    \E i \in DOMAIN s :
        /\ s[i] = "<!DOCTYPE html>"
        /\ \A j \in 1..(i - 1) : s[j] \in WhiteSpace

Indirection ==
    /\ gd.first.kind = "return"
    /\ gd.first.v.t = "str"
    /\ gd.api_type # "text"
    /\ \E i \in DOMAIN gd.first.v.v : gd.first.v.v[i] \in UrlTokens

\* C13: get_data makes a second request only when the first result is a
\* plain string with an embedded absolute URL and type is not text; the
\* second request goes to the original URL list and, when get_data returns,
\* its bytes are what is returned. In every other case there is exactly one
\* request and the first result is kept.
C13_SecondRequestOnlyOnIndirection ==
    /\ Len(gd.calls) \in {1, 2}
    /\ gd.calls[1].urls = gd.urls
    /\ gd.first = Pending => Len(gd.calls) = 1 /\ req.urls = gd.urls
    /\ gd.first # Pending =>
          /\ Len(gd.calls) = 2 <=> Indirection
          /\ Indirection =>
                /\ gd.calls[2].urls = gd.urls
                /\ req.urls = gd.urls
                /\ gd.ret.kind = "return" =>
                      /\ gd.second.kind = "return" /\ gd.second.v.t = "bytes"
                      /\ gd.ret.v = [text |-> NoneV, byte |-> gd.second.v]
          /\ ~Indirection =>
                /\ gd.second = Pending
                /\ gd.pc = "done"
                /\ gd.first.kind = "raise" => gd.ret = gd.first
                /\ gd.first.kind = "return" =>
                      /\ gd.ret.kind = "return"
                      /\ gd.first.v.t = "bytes" =>
                            gd.ret.v = [text |-> NoneV, byte |-> gd.first.v]
                      /\ gd.first.v.t = "str" /\ ~IsHtmlDocument(gd.first.v.v) =>
                            gd.ret.v = [text |-> gd.first.v, byte |-> NoneV]

\* a redownload whose second URL answered with bytes
C13_Witness ==
    /\ Indirection
    /\ gd.pc = "done"
    /\ Len(gd.calls) = 2
    /\ req.sent = <<1, 2>>
    /\ gd.ret.kind = "return"
    /\ gd.ret.v.byte = gd.second.v
    /\ gd.ret.v.byte.t = "bytes"

\* C14 (as claimed): when the redownload fails, because every URL of the
\* second request raised or because it did not give bytes, get_data raises
\* the download failure that carries the discovered URL, and nothing else.
C14_RedownloadFailureIsDownloadFailed ==
    (/\ Len(gd.calls) = 2
     /\ gd.pc = "done"
     /\ (gd.second.kind = "raise" \/ gd.second.v.t # "bytes")) =>
        /\ gd.ret.kind = "raise"
        /\ gd.ret.exc.what = "RuntimeError"
        /\ "url" \in DOMAIN gd.ret.exc
        /\ gd.ret.exc.url = gd.url

\* the same for a second request that returned something that is not bytes
RedownloadWithoutBytes ==
    (/\ Len(gd.calls) = 2
     /\ gd.pc = "done"
     /\ gd.second.kind = "return"
     /\ gd.second.v.t # "bytes") =>
        gd.ret = Raise([what |-> "RuntimeError", url |-> gd.url])

---------------------------------------------------------------------------
\* Properties of the registry, checked under SpecRegistry.

Keys(reg) == {reg[i].key : i \in DOMAIN reg}

\* the last operation was normalize_api_data of a registered name, and its
\* result is as it was returned
NormalizedRegistered ==
    /\ rg.last.op = "normalize_api_data"
    /\ rg.last.arg \in Keys(rg.last.apis)
    /\ ~rg.mutated

\* C15 (as claimed): normalize_api_data of a registered name returns a type
\* among text, image, video, audio (image when the stored type is invalid or
\* missing) and a non-empty URL list, whatever the stored url field is.
C15_NormalizedTypeAndUrls ==
    NormalizedRegistered =>
        LET raw_api == RawOf(rg.last.apis, rg.last.arg)
            normalized == rg.out[1].v
        IN  /\ normalized.type \in {"text", "image", "video", "audio"}
            /\ ("type" \notin DOMAIN raw_api \/ raw_api.type \notin {"text", "image", "video", "audio"})
                  => normalized.type = "image"
            /\ normalized.urls # <<>>

\* the same, without the stored definitions whose url field is an empty list
NormalizedUnlessEmptyList ==
    (/\ NormalizedRegistered
     /\ Get(RawOf(rg.last.apis, rg.last.arg), "url", NoneV) # List(<<>>))
        => C15_NormalizedTypeAndUrls

\* C16 (as claimed): whatever the caller does to a definition it was handed
\* by normalize_api_data, match_api_by_name or find_api_matches, the
\* registry stays as it was when the value was handed out.
C16_HandedValuesAreCopies ==
    rg.last.op \in {"normalize_api_data", "match_api_by_name", "find_api_matches"} =>
        apis = rg.last.apis

\* the same for normalize_api_data and match_api_by_name only
NormalizedValuesAreCopies ==
    rg.last.op \in {"normalize_api_data", "match_api_by_name"} =>
        /\ apis = rg.last.apis
        /\ \A i \in DOMAIN rg.out : rg.out[i].shared = {}

\* the keyword field is absent, the empty string or the empty list
NoKeyword(api_info) ==
    \/ "keyword" \notin DOMAIN api_info
    \/ api_info.keyword = Str(<<>>)
    \/ api_info.keyword = List(<<>>)

\* the first keyword of a definition that has one
PrimaryKeyword(api_info) ==
    IF api_info.keyword.t = "str" THEN api_info.keyword.v ELSE api_info.keyword.v[1]

\* C17: add_api of a definition that has a keyword stores it under its
\* first keyword, in place of what was stored under that key; every other
\* entry is as before, and no key is held twice.
C17_AddStoresUnderPrimaryKeyword ==
    (rg.last.op = "add_api" /\ ~NoKeyword(rg.last.arg)) =>
        LET name == PrimaryKeyword(rg.last.arg)
            before == rg.last.apis
        IN  /\ rg.ret.kind = "return"
            /\ Keys(apis) = Keys(before) \cup {name}
            /\ \A i, j \in DOMAIN apis : apis[i].key = apis[j].key => i = j
            /\ \A i \in DOMAIN apis :
                  apis[i].raw = IF apis[i].key = name THEN rg.last.arg
                                ELSE RawOf(before, apis[i].key)

\* a definition is added under a key that held another one, next to another entry
C17_Witness ==
    /\ rg.last.op = "add_api"
    /\ ~NoKeyword(rg.last.arg)
    /\ PrimaryKeyword(rg.last.arg) \in Keys(rg.last.apis)
    /\ RawOf(rg.last.apis, PrimaryKeyword(rg.last.arg)) # rg.last.arg
    /\ Len(rg.last.apis) = 2
    /\ RawOf(apis, PrimaryKeyword(rg.last.arg)) = rg.last.arg

\* C18 (as claimed): add_api of a definition without a keyword fails, the
\* failure is reported to the caller, and neither the registry nor the
\* persisted store changes.
C18_AddWithoutKeywordFails ==
    (rg.last.op = "add_api" /\ NoKeyword(rg.last.arg)) =>
        /\ rg.ret.kind = "raise" \/ rg.reply = "failed"
        /\ apis = rg.last.apis
        /\ rg.apis_file = rg.last.apis_file

\* the same without the report
AddWithoutKeywordChangesNothing ==
    (rg.last.op = "add_api" /\ NoKeyword(rg.last.arg)) =>
        /\ apis = rg.last.apis
        /\ rg.apis_file = rg.last.apis_file

\* C19: remove_api(name) removes the entry stored under name and nothing
\* else; when there is none it changes neither the registry nor the
\* persisted store; it never raises.
C19_RemoveExactlyThatEntry ==
    rg.last.op = "remove_api" =>
        LET name == rg.last.arg
            before == rg.last.apis
        IN  /\ rg.ret.kind = "return"
            /\ Keys(apis) = Keys(before) \ {name}
            /\ Len(apis) = Cardinality(Keys(apis))
            /\ \A i \in DOMAIN apis : apis[i].raw = RawOf(before, apis[i].key)
            /\ \A i, j \in DOMAIN apis :
                  i < j => IndexOf(before, apis[i].key) < IndexOf(before, apis[j].key)
            /\ name \notin Keys(before) =>
                  apis = before /\ rg.apis_file = rg.last.apis_file

\* the first of two entries is removed, the second stays
C19_Witness ==
    /\ rg.last.op = "remove_api"
    /\ Len(rg.last.apis) = 2
    /\ rg.last.apis[1].key = rg.last.arg
    /\ apis = <<rg.last.apis[2]>>
    /\ rg.apis_file = JsonFile(apis)

\* C20 (as claimed): load_data never raises; a persisted store that is
\* present and parses is used as it is; when it is absent or corrupt the
\* registry is the default catalog, which is then persisted; when that one
\* is absent or corrupt too the registry is empty.
C20_LoadNeverRaises ==
    rg.last.op = "load_data" =>
        LET store == rg.last.apis_file
            catalog == rg.system_api_file
        IN  /\ rg.ret.kind = "return"
            /\ store.st = "json" => apis = store.v /\ rg.apis_file = store
            /\ (store.st # "json" /\ catalog.st = "json") =>
                  apis = catalog.v /\ rg.apis_file = JsonFile(catalog.v)
            /\ (store.st # "json" /\ catalog.st # "json") =>
                  apis = <<>> /\ rg.apis_file = store

\* the same for files that are absent, JSON, or text that is not JSON
LoadFallbackOrder ==
    (/\ rg.last.op = "load_data"
     /\ rg.last.apis_file.st # "encoding"
     /\ (rg.last.apis_file.st # "json" => rg.system_api_file.st # "encoding"))
        => C20_LoadNeverRaises

\* C21 (as claimed): whatever definitions have been added and removed, no
\* stored keyword list holds the empty string, and match_api_by_name and
\* find_api_matches of the empty trigger match nothing.
C21_EmptyTriggerMatchesNothing ==
    /\ rg.pc = "ready" =>
          \A i \in DOMAIN apis : <<>> \notin Range(KeywordsOf(apis[i].raw))
    /\ (/\ rg.last.op \in {"match_api_by_name", "find_api_matches"}
        /\ rg.last.arg = <<>>) => rg.out = <<>>

\* the same when no stored keyword list holds the empty string
EmptyTriggerWithoutEmptyKeyword ==
    (/\ rg.last.op \in {"match_api_by_name", "find_api_matches"}
     /\ rg.last.arg = <<>>
     /\ \A i \in DOMAIN rg.last.apis : <<>> \notin Range(KeywordsOf(rg.last.apis[i].raw)))
        => rg.out = <<>>

\* C23: when add_api or remove_api has changed the registry, the persisted
\* store holds the whole registry as it is in memory: there is no state in
\* which the change is in memory and not in the store.
C23_PersistedWithTheMutation ==
    (rg.last.op \in {"add_api", "remove_api"} /\ apis # rg.last.apis) =>
        /\ rg.apis_file = JsonFile(apis)
        /\ rg.ret.kind = "return"

\* a first definition is added where there was no store: the store now
\* holds it
C23_Witness ==
    /\ rg.last.op = "add_api"
    /\ rg.last.apis = <<>>
    /\ rg.last.apis_file = NoFile
    /\ Len(apis) = 1
    /\ rg.apis_file = JsonFile(apis)

---------------------------------------------------------------------------
\* Properties of find_api_matches, checked under SpecMatchAll.

FoundAll == mt # NoneV /\ mt.op = "find_api_matches"

\* C22: find_api_matches returns exactly the definitions that match the
\* trigger, the same ones match_api_by_name chooses among, each once, with
\* its priority and stored dict, by descending priority and in registry
\* order among equal priorities; what match_api_by_name can return for the
\* same trigger is in the list with the priority of its first element.
C22_AllMatchesSortedStable ==
    FoundAll =>
        LET ret == mt.ret
            matching == MatchingKeys(mt.msg)
        IN  /\ {ret[i].key : i \in DOMAIN ret} = matching
            /\ Len(ret) = Cardinality(matching)
            /\ {ret[i].key : i \in DOMAIN ret}
                  = {m.key : m \in Range(Matches(apis, mt.msg))}
            /\ \A i \in DOMAIN ret :
                  /\ ret[i].raw = RawOf(apis, ret[i].key)
                  /\ ret[i].priority = PriorityOf(ret[i].key)
            /\ \A i, j \in DOMAIN ret :
                  i < j =>
                     /\ ret[i].priority >= ret[j].priority
                     /\ ret[i].priority = ret[j].priority =>
                           IndexOf(apis, ret[i].key) < IndexOf(apis, ret[j].key)
            /\ \A best \in MatchApiByNameResults(apis, mt.msg) :
                  IF best = NoneV THEN ret = <<>>
                  ELSE \E i \in DOMAIN ret :
                          /\ ret[i].key = best.name
                          /\ ret[i].priority = ret[1].priority

\* a definition of priority 5 registered after one of priority 3 comes first
C22_Witness ==
    /\ FoundAll
    /\ Len(mt.ret) = 2
    /\ mt.ret[1].priority = 5
    /\ mt.ret[2].priority = 3
    /\ IndexOf(apis, mt.ret[2].key) < IndexOf(apis, mt.ret[1].key)

---------------------------------------------------------------------------
\* Properties of the rounds of batch_test_apis, checked under SpecProbe.

\* the URL names a site: it has a scheme and a host
HasOrigin(e) == e.url.scheme # "" /\ e.url.netloc # ""

OriginOf(e) == <<e.url.scheme, e.url.netloc>>

\* the probes of the running round whose GET awaits its response
InFlight == {i \in DOMAIN pb.tasks : pb.pc = "gather" /\ pb.tasks[i].inflight # {}}

\* the probe entries in the order of the flattening: registry order, then
\* the order of the URLs of a definition
RECURSIVE FlatEntries(_)
FlatEntries(reg) ==
    IF reg = <<>> THEN <<>> ELSE EntriesOfApi(Head(reg)) \o FlatEntries(Tail(reg))

OfOrigin(entries, o) == SelectSeq(entries, LAMBDA e : HasOrigin(e) /\ OriginOf(e) = o)

Origins == {OriginOf(e) : e \in {x \in Range(FlatEntries(Flattened(apis))) : HasOrigin(x)}}

\* C24: of the URLs that name a site, no two of one origin (scheme and
\* host) are in the same round, so at most one probe per origin is in
\* flight; no probe is pending when a round can start; and the entries of
\* one origin are probed in the order of the flattening (registry order,
\* then URL order within a definition).
C24_OneProbePerOriginInFlight ==
    /\ \A i, j \in DOMAIN pb.batch :
          (/\ HasOrigin(pb.batch[i]) /\ HasOrigin(pb.batch[j])
           /\ OriginOf(pb.batch[i]) = OriginOf(pb.batch[j])) => i = j
    /\ \A i, j \in InFlight :
          (/\ HasOrigin(pb.batch[i]) /\ HasOrigin(pb.batch[j])
           /\ OriginOf(pb.batch[i]) = OriginOf(pb.batch[j])) => i = j
    /\ pb.pc # "gather" => \A i \in DOMAIN pb.tasks : pb.tasks[i].ret # Pending
    /\ pb.pc = "gather" => Len(pb.tasks) = Len(pb.batch)
    /\ pb.pc # "idle" =>
          \A o \in Origins :
             LET probed == OfOrigin(pb.probed, o)
                 flat == OfOrigin(FlatEntries(Flattened(apis)), o)
             IN  /\ Len(probed) <= Len(flat)
                 /\ probed = SubSeq(flat, 1, Len(probed))
                 /\ Len(probed) <= pb.rounds
                 /\ pb.ret.kind = "return" => probed = flat

\* second round: a probe of each of two origins is in flight, and an entry
\* of each origin was probed in the first round
C24_Witness ==
    /\ pb.pc = "gather"
    /\ pb.rounds = 2
    /\ Cardinality(InFlight) = 2
    /\ \A i \in InFlight : HasOrigin(pb.batch[i])
    /\ \A i \in InFlight :
          Len(OfOrigin(pb.probed, OriginOf(pb.batch[i]))) = 2

---------------------------------------------------------------------------
\* Properties of batch_test_apis under concurrent add and remove commands,
\* checked under SpecProbeSnapshot.

\* the registry as it was when the call started
StartedOn == rg.last.apis

ProbesOf(reg) == {Probe(e) : e \in Range(FlatEntries(Flattened(reg)))}

\* C25: the add and remove commands that run while batch_test_apis awaits
\* its rounds change neither its probe entries nor its outcome: the queues
\* and the probes are those of the registry the call started on, the call
\* raises only at its start, and the lists it returns hold exactly the
\* names registered when it started, each once, in that order.
C25_ProbeOfStartingRegistry ==
    pb.pc # "idle" =>
        /\ pb.queued = SiteToEntries(<<>>, Flattened(StartedOn))
        /\ {Probe(e) : e \in Range(pb.probed)} \subseteq ProbesOf(StartedOn)
        /\ Len(pb.probed) = Cardinality(Range(pb.probed))
        /\ pb.ret.kind = "raise" <=> Flattened(StartedOn) # StartedOn
        /\ pb.ret.kind = "raise" => pb.rounds = 0 /\ apis = StartedOn
        /\ pb.ret.kind = "return" =>
              /\ {Probe(e) : e \in Range(pb.probed)} = ProbesOf(StartedOn)
              /\ Range(pb.ret.v.abled) \cup Range(pb.ret.v.disabled) = Keys(StartedOn)
              /\ Len(pb.ret.v.abled) + Len(pb.ret.v.disabled) = Len(StartedOn)
              /\ pb.ret.v.abled =
                    [i \in DOMAIN pb.ret.v.abled |->
                        SelectSeq(StartedOn,
                                  LAMBDA e : e.key \in Range(pb.ret.v.abled))[i].key]
              /\ pb.ret.v.disabled =
                    [i \in DOMAIN pb.ret.v.disabled |->
                        SelectSeq(StartedOn,
                                  LAMBDA e : e.key \in Range(pb.ret.v.disabled))[i].key]

\* the call returns after a registered name was removed and another one
\* was added during its rounds
C25_Witness ==
    /\ pb.pc = "done"
    /\ pb.ret.kind = "return"
    /\ pb.rounds >= 2
    /\ Keys(StartedOn) \ Keys(apis) # {}
    /\ Keys(apis) \ Keys(StartedOn) # {}
    /\ \E i \in DOMAIN apis : "url" \notin DOMAIN apis[i].raw

---------------------------------------------------------------------------
\* Properties of match_api, checked under SpecHandler.

\* the definition is disabled by name, by type, or by the site of a URL
Disabled(d, conf) ==
    \/ d.name \in conf.disabled_apis
    \/ d.type \notin conf.enabled_types
    \/ \E u \in Range(d.urls), site \in Range(conf.disabled_sites) :
          site # <<>> /\ StartsWith(UrlStr(u), site)

\* nothing was fetched, read from the cache, or sent
NothingDone ==
    /\ ca = NoneV
    /\ gd = NoneV
    /\ req = NoRequest
    /\ mt.sent = <<>>
    /\ mt.removed = <<>>
    /\ ~mt.stopped

\* C26: when the definition match_api_by_name returned is disabled by its
\* name, by its type or by the site of one of its URLs, match_api ends with
\* nothing fetched, nothing read from the local cache and nothing sent, also
\* when another definition matches the same trigger; call_api is only ever
\* started on the returned definition, and that one is not disabled.
C26_DisabledIsNeverFetched ==
    /\ (mt.api_data # NoneV /\ Disabled(mt.api_data, mt.conf)) =>
          /\ mt.pc = "returned"
          /\ NothingDone
    /\ ca # NoneV =>
          /\ ca.api_data = mt.api_data
          /\ ~Disabled(ca.api_data, mt.conf)
          /\ gd.urls = mt.api_data.urls
    /\ mt.pc = "new" => NothingDone

\* a is disabled by the site of its second URL only, b matches the same
\* trigger and is not disabled: the handler has ended with nothing done
C26_Witness ==
    /\ mt.pc = "returned"
    /\ mt.api_data # NoneV
    /\ mt.api_data.name = <<"a">>
    /\ mt.api_data.name \notin mt.conf.disabled_apis
    /\ mt.api_data.type \in mt.conf.enabled_types
    /\ Disabled(mt.api_data, mt.conf)
    /\ \E d \in MatchApiByNameResults(apis, FirstWord(mt.message_str)) :
          d # NoneV /\ ~Disabled(d, mt.conf)
    /\ NothingDone

====
